---------------------------- MODULE Spec2Model ----------------------------
(***************************************************************************)
(* TitleCardMaker, modules/TMDbInterface.py: the blacklist/backoff cache,  *)
(* the series ID resolver, the episode matcher, the asset selectors and    *)
(* the three query orchestrators (get_source_image, get_episode_title,     *)
(* get_series_logo), as a state machine.                                   *)
(*                                                                         *)
(* Time is counted in ticks; one day (timedelta(days=1)) is TicksPerDay    *)
(* ticks.  Python's None is the integer None (-1) where an integer is      *)
(* expected and the string "None" where a string is expected.              *)
(***************************************************************************)
EXTENDS Integers, Sequences, FiniteSets, TLC

VARIABLES
    now,          \* the wall clock, datetime.now(), in ticks
    retryCount,   \* preferences.tmdb_retry_count
    blacklist,    \* self.__blacklist: query type -> key -> {failures, next}
    blFile,       \* content of db_blacklist.yml, or NoFile
    idMap,        \* self.__id_map: {'name': {...}, 'id': {...}}
    idFile,       \* content of db_id_map.yml, or NoFile
    tmdb,         \* series_info.tmdb_id of each SeriesInfo object
    catalog,      \* what surrounds the calls: the provider's catalogue
                  \* (SpecResolver), the inputs of a pure function
                  \* (SpecMatcher, SpecSelectors), the process (SpecStore)
    resolveFailed,\* series whose resolution has ended with zero results
    call          \* the last call made: its arguments, result and queries

vars == <<now, retryCount, blacklist, blFile, idMap, idFile, tmdb, catalog,
          resolveFailed, call>>

---------------------------------------------------------------------------
(* Bounds of the model *)

MaxTime == 3

TicksPerDay == 2

MaxRetry == 1

MaxId == 1

MaxImages == 2
\* the interface objects one process constructs
MaxInstances == 2

---------------------------------------------------------------------------
(* Values *)

None == -1

NoFile == [exists |-> FALSE]

QueryTypes == {"image", "title", "logo"}

Ids == 0 .. MaxId

\* __EMPTY_BLACKLIST
EmptyBlacklist == [qt \in QueryTypes |-> <<>>]

\* the identifier map of a first run
EmptyIdMap == [name |-> <<>>, id |-> <<>>]

\* SeriesInfo objects: full_name is "name (year)", tvdb_id may be None
SeriesA == [full_name |-> "A (2020)", tvdb_id |-> 7]

SeriesB == [full_name |-> "B (2021)", tvdb_id |-> None]

\* EpisodeInfo objects
Episode(season, episode, abs, tvdb, title) ==
    [key |-> ToString(season) \o "-" \o ToString(episode),
     season_number |-> season, episode_number |-> episode,
     abs_number |-> abs, tvdb_id |-> tvdb, title |-> title]

\* the episode_info=None that get_series_logo passes
NoEpisode ==
    [key |-> "None", season_number |-> None, episode_number |-> None,
     abs_number |-> None, tvdb_id |-> None, title |-> "None"]

\* f with key k bound to v (a dict assignment d[k] = v)
Put(f, k, v) == [x \in DOMAIN f \cup {k} |-> IF x = k THEN v ELSE f[x]]

\* a provider query: the endpoint and the indices in its URL
Query(kind, id, season, episode) ==
    [kind |-> kind, id |-> id, season |-> season, episode |-> episode]

\* the record of a call: its arguments, the clock values it read, what it
\* returned, the return statement it left by, the provider queries it
\* issued in order, whether __is_blacklisted held at its start, how often
\* it called __update_blacklist, and whether a resolution of the same
\* series had ended with zero results before it
NoCall ==
    [op |-> "init", qt |-> "-", key |-> "-", series |-> "-", t1 |-> None,
     t2 |-> None, ret |-> "None", exit |-> "-", queries |-> <<>>,
     blacklisted |-> FALSE, updates |-> 0, repeat |-> FALSE,
     resolve |-> "-", index |-> [season |-> None, episode |-> None],
     best |-> 0, results |-> <<>>]

---------------------------------------------------------------------------
(* Blacklist/backoff cache *)

\* mutant: the series' name is the key for every query type
BlacklistKeySeriesOnly(series_info, episode_info, query_type) ==
    series_info.full_name

\* the key of an entry: lines 155-159 and 196-200
BlacklistKey(series_info, episode_info, query_type) ==
    IF query_type = "logo"
    THEN series_info.full_name
    ELSE series_info.full_name \o "-" \o episode_info.key

\* mutant: only the failure count is looked at, the waiting window is not
IsBlacklistedCountOnly(bl, retry, query_type, key, t) ==
    IF query_type \notin DOMAIN bl THEN FALSE
    ELSE IF key \notin DOMAIN bl[query_type] THEN FALSE
    ELSE bl[query_type][key].failures > retry

\* mutant: the threshold compared with >= instead of >
IsBlacklistedOffByOne(bl, retry, query_type, key, t) ==
    IF query_type \notin DOMAIN bl THEN FALSE
    ELSE IF key \notin DOMAIN bl[query_type] THEN FALSE
    ELSE IF bl[query_type][key].failures >= retry THEN TRUE
    ELSE t < bl[query_type][key].next

\* mutant: the waiting window decides before the failure count is looked at
IsBlacklistedWindowFirst(bl, retry, query_type, key, t) ==
    IF query_type \notin DOMAIN bl THEN FALSE
    ELSE IF key \notin DOMAIN bl[query_type] THEN FALSE
    ELSE IF t >= bl[query_type][key].next THEN FALSE
    ELSE TRUE

\* __is_blacklisted, with the clock read t and tmdb_retry_count retry
IsBlacklisted(bl, retry, query_type, key, t) ==
    IF query_type \notin DOMAIN bl THEN FALSE
    ELSE IF key \notin DOMAIN bl[query_type] THEN FALSE
    ELSE IF bl[query_type][key].failures > retry THEN TRUE
    ELSE t < bl[query_type][key].next

\* mutant: the count is incremented but next is not reset (line 167 lost)
UpdateBlacklistKeepNext(bl, query_type, key, t1, t2) ==
    LET later == t1 + TicksPerDay IN
    IF key \in DOMAIN bl[query_type]
    THEN IF t2 >= bl[query_type][key].next
         THEN [bl EXCEPT ![query_type][key].failures = @ + 1]
         ELSE bl
    ELSE [bl EXCEPT ![query_type] =
             Put(@, key, [failures |-> 1, next |-> later])]

\* mutant: no debounce, every call on a present key counts as a failure
UpdateBlacklistNoDebounce(bl, query_type, key, t1, t2) ==
    LET later == t1 + TicksPerDay IN
    IF key \in DOMAIN bl[query_type]
    THEN [bl EXCEPT ![query_type][key] =
             [failures |-> @.failures + 1, next |-> later]]
    ELSE [bl EXCEPT ![query_type] =
             Put(@, key, [failures |-> 1, next |-> later])]

\* __update_blacklist lines 161-172: the new in-memory blacklist. t1 is the
\* clock read of line 162 (later = now + 1 day), t2 the read of line 164.
UpdateBlacklist(bl, query_type, key, t1, t2) ==
    LET later == t1 + TicksPerDay IN
    IF key \in DOMAIN bl[query_type]
    THEN IF t2 >= bl[query_type][key].next
         THEN [bl EXCEPT ![query_type][key] =
                  [failures |-> @.failures + 1, next |-> later]]
         ELSE bl
    ELSE [bl EXCEPT ![query_type] =
             Put(@, key, [failures |-> 1, next |-> later])]

\* __update_blacklist lines 163-176: whether the call reaches the dump of
\* lines 174-176 (the debounce branch returns before it)
UpdateWrites(bl, query_type, key, t2) ==
    IF key \in DOMAIN bl[query_type]
    THEN t2 >= bl[query_type][key].next
    ELSE TRUE

\* the blacklist file after __update_blacklist
UpdateFile(file, bl, query_type, key, t1, t2) ==
    IF UpdateWrites(bl, query_type, key, t2)
    THEN UpdateBlacklist(bl, query_type, key, t1, t2)
    ELSE file

---------------------------------------------------------------------------
(* The clock *)

Tick ==
    /\ now < MaxTime
    /\ now' = now + 1
    /\ UNCHANGED <<retryCount, blacklist, blFile, idMap, idFile, tmdb,
                   catalog, resolveFailed, call>>

\* the clock reads a call may see after the read t: the same tick or the next
Later(t) == {u \in {t, t + 1} : u <= MaxTime}

---------------------------------------------------------------------------
(* SpecCache: the cache's two operations called directly *)

CacheTargets ==
    { [qt |-> "image", series |-> SeriesA, episode |-> Episode(1, 2, 5, 9, "T")],
      [qt |-> "title", series |-> SeriesA, episode |-> Episode(1, 2, 5, 9, "T")],
      [qt |-> "image", series |-> SeriesA, episode |-> Episode(1, 3, None, None, "T")],
      [qt |-> "logo", series |-> SeriesB, episode |-> NoEpisode] }

InitCommon ==
    /\ now = 0
    /\ retryCount \in 0 .. MaxRetry
    /\ blacklist = EmptyBlacklist
    /\ blFile = NoFile
    /\ idMap = EmptyIdMap
    /\ idFile = NoFile
    /\ tmdb = [s \in {SeriesA.full_name, SeriesB.full_name} |-> None]
    /\ resolveFailed = {}
    /\ call = NoCall

InitCache ==
    /\ InitCommon
    /\ catalog = <<>>

CallIsBlacklisted(c) ==
    LET key == BlacklistKey(c.series, c.episode, c.qt) IN
    /\ call' = [NoCall EXCEPT !.op = "is_blacklisted", !.qt = c.qt,
                   !.key = key, !.series = c.series.full_name, !.t1 = now,
                   !.ret = IF IsBlacklisted(blacklist, retryCount, c.qt, key, now)
                           THEN "True" ELSE "False"]
    /\ UNCHANGED <<now, retryCount, blacklist, blFile, idMap, idFile, tmdb,
                   catalog, resolveFailed>>

CallUpdateBlacklist(c) ==
    LET key == BlacklistKey(c.series, c.episode, c.qt) IN
    \E t2 \in Later(now) :
        /\ now' = t2
        /\ blacklist' = UpdateBlacklist(blacklist, c.qt, key, now, t2)
        /\ blFile' = UpdateFile(blFile, blacklist, c.qt, key, now, t2)
        /\ call' = [NoCall EXCEPT !.op = "update_blacklist", !.qt = c.qt,
                       !.key = key, !.series = c.series.full_name,
                       !.t1 = now, !.t2 = t2]
        /\ UNCHANGED <<retryCount, idMap, idFile, tmdb, catalog, resolveFailed>>

NextCache ==
    \/ Tick
    \/ \E c \in CacheTargets : CallIsBlacklisted(c)
    \/ \E c \in CacheTargets : CallUpdateBlacklist(c)

SpecCache == InitCache /\ [][NextCache]_vars

---------------------------------------------------------------------------
(* ID resolver *)

\* SeriesInfo.set_tmdb_id: the series' provider ID becomes the given one
SetId(old, new) == new

\* the truth value Python gives an ID read from the map with .get(key, None)
Truthy(id) == id # None /\ id # 0

\* mutant: the TVDb ID is not mapped (lines 228-229 lost)
AddIdToMapNameOnly(map, series_info, tmdb_id) ==
    [map EXCEPT !.name = Put(@, series_info.full_name, tmdb_id)]

\* __add_id_to_map lines 224-229: the new in-memory map
AddIdToMap(map, series_info, tmdb_id) ==
    LET named == [map EXCEPT !.name = Put(@, series_info.full_name, tmdb_id)]
    IN  IF series_info.tvdb_id # None
        THEN [named EXCEPT !.id = Put(@, series_info.tvdb_id, tmdb_id)]
        ELSE named

\* mutant: a resolution without results is remembered in the map
SetTmdbIdCachesMiss(series_info, map, tmdb_id, find, search) ==
    LET fn == series_info.full_name
        tv == series_info.tvdb_id
        qFind == Query("find", tv, None, None)
        qSearch == Query("search/tv", None, None, None)
    IN  IF tv # None /\ tv \in DOMAIN map.id
        THEN [tmdb |-> SetId(tmdb_id, map.id[tv]), map |-> map,
              queries |-> <<>>, saved |-> FALSE, exit |-> "map_id"]
        ELSE IF fn \in DOMAIN map.name
        THEN [tmdb |-> SetId(tmdb_id, map.name[fn]), map |-> map,
              queries |-> <<>>, saved |-> FALSE, exit |-> "map_name"]
        ELSE IF tv # None /\ Len(find) = 1
        THEN [tmdb |-> SetId(tmdb_id, find[1]),
              map |-> AddIdToMap(map, series_info, SetId(tmdb_id, find[1])),
              queries |-> <<qFind>>, saved |-> TRUE, exit |-> "find"]
        ELSE LET qs == IF tv # None THEN <<qFind, qSearch>> ELSE <<qSearch>>
             IN  IF search.total_results = 0
                 THEN [tmdb |-> tmdb_id,
                       map |-> [map EXCEPT !.name = Put(@, fn, None)],
                       queries |-> qs, saved |-> TRUE, exit |-> "no_results"]
                 ELSE [tmdb |-> SetId(tmdb_id, search.results[1]),
                       map |-> AddIdToMap(map, series_info,
                                          SetId(tmdb_id, search.results[1])),
                       queries |-> qs, saved |-> TRUE, exit |-> "search"]

\* mutant: a resolution without results resets the series' provider ID
SetTmdbIdClearsOnMiss(series_info, map, tmdb_id, find, search) ==
    LET fn == series_info.full_name
        tv == series_info.tvdb_id
        qFind == Query("find", tv, None, None)
        qSearch == Query("search/tv", None, None, None)
    IN  IF tv # None /\ tv \in DOMAIN map.id
        THEN [tmdb |-> SetId(tmdb_id, map.id[tv]), map |-> map,
              queries |-> <<>>, saved |-> FALSE, exit |-> "map_id"]
        ELSE IF fn \in DOMAIN map.name /\ Truthy(map.name[fn])
        THEN [tmdb |-> SetId(tmdb_id, map.name[fn]), map |-> map,
              queries |-> <<>>, saved |-> FALSE, exit |-> "map_name"]
        ELSE IF tv # None /\ Len(find) = 1
        THEN [tmdb |-> SetId(tmdb_id, find[1]),
              map |-> AddIdToMap(map, series_info, SetId(tmdb_id, find[1])),
              queries |-> <<qFind>>, saved |-> TRUE, exit |-> "find"]
        ELSE LET qs == IF tv # None THEN <<qFind, qSearch>> ELSE <<qSearch>>
             IN  IF search.total_results = 0
                 THEN [tmdb |-> SetId(tmdb_id, None), map |-> map,
                       queries |-> qs, saved |-> FALSE, exit |-> "no_results"]
                 ELSE [tmdb |-> SetId(tmdb_id, search.results[1]),
                       map |-> AddIdToMap(map, series_info,
                                          SetId(tmdb_id, search.results[1])),
                       queries |-> qs, saved |-> TRUE, exit |-> "search"]

\* __set_tmdb_id. find is the 'tv_results' of the cross-reference lookup
\* (the IDs of its results), search the answer of the title+year search;
\* each is consulted only where the code issues the query. The result is
\* the series' tmdb_id, the in-memory map, the queries issued, whether the
\* map file was written, and the return statement taken.
SetTmdbId(series_info, map, tmdb_id, find, search) ==
    LET fn == series_info.full_name
        tv == series_info.tvdb_id
        qFind == Query("find", tv, None, None)
        qSearch == Query("search/tv", None, None, None)
    IN  IF tv # None /\ tv \in DOMAIN map.id
        THEN [tmdb |-> SetId(tmdb_id, map.id[tv]), map |-> map,
              queries |-> <<>>, saved |-> FALSE, exit |-> "map_id"]
        ELSE IF fn \in DOMAIN map.name /\ Truthy(map.name[fn])
        THEN [tmdb |-> SetId(tmdb_id, map.name[fn]), map |-> map,
              queries |-> <<>>, saved |-> FALSE, exit |-> "map_name"]
        ELSE IF tv # None /\ Len(find) = 1
        THEN [tmdb |-> SetId(tmdb_id, find[1]),
              map |-> AddIdToMap(map, series_info, SetId(tmdb_id, find[1])),
              queries |-> <<qFind>>, saved |-> TRUE, exit |-> "find"]
        ELSE LET qs == IF tv # None THEN <<qFind, qSearch>> ELSE <<qSearch>>
             IN  IF search.total_results = 0
                 THEN [tmdb |-> tmdb_id, map |-> map, queries |-> qs,
                       saved |-> FALSE, exit |-> "no_results"]
                 ELSE [tmdb |-> SetId(tmdb_id, search.results[1]),
                       map |-> AddIdToMap(map, series_info,
                                          SetId(tmdb_id, search.results[1])),
                       queries |-> qs, saved |-> TRUE, exit |-> "search"]

\* answers of the provider's cross-reference lookup: 'tv_results' with
\* zero, one or two series
FindResponses ==
    {<<>>} \cup {<<i>> : i \in Ids} \cup {<<i, j>> : i \in Ids, j \in Ids}

\* answers of the provider's title+year search
SearchResponses ==
    {[total_results |-> Len(r), results |-> r] : r \in FindResponses}

---------------------------------------------------------------------------
(* SpecResolver: __set_tmdb_id called directly, against a provider whose
   series catalogue does not change during a behaviour *)

ResolverSeries == {SeriesA, SeriesB}

\* identifier maps a first-time or an earlier run leaves in db_id_map.yml:
\* none, or the name of a series that was then configured without TVDb ID
LoadedIdMaps ==
    {EmptyIdMap} \cup
    {[name |-> Put(<<>>, SeriesA.full_name, i), id |-> <<>>] : i \in Ids \ {0}}

InitResolver ==
    /\ now = 0
    /\ retryCount \in 0 .. MaxRetry
    /\ blacklist = EmptyBlacklist
    /\ blFile = NoFile
    /\ idMap \in LoadedIdMaps
    /\ idFile = IF idMap = EmptyIdMap THEN NoFile ELSE idMap
    /\ tmdb = [s \in {SeriesA.full_name, SeriesB.full_name} |-> None]
    /\ catalog \in [{SeriesA.full_name, SeriesB.full_name} ->
                       [find : FindResponses, search : SearchResponses]]
    /\ catalog[SeriesB.full_name].find = <<>>
    /\ resolveFailed = {}
    /\ call = NoCall

CallSetTmdbId(s) ==
    LET fn == s.full_name
        r == SetTmdbId(s, idMap, tmdb[fn], catalog[fn].find, catalog[fn].search)
    IN  /\ tmdb' = [tmdb EXCEPT ![fn] = r.tmdb]
        /\ idMap' = r.map
        /\ idFile' = IF r.saved THEN r.map ELSE idFile
        /\ resolveFailed' = IF r.exit = "no_results"
                            THEN resolveFailed \cup {fn} ELSE resolveFailed
        /\ call' = [NoCall EXCEPT !.op = "set_tmdb_id", !.series = fn,
                       !.exit = r.exit, !.queries = r.queries,
                       !.repeat = (fn \in resolveFailed)]
        /\ UNCHANGED <<now, retryCount, blacklist, blFile, catalog>>

NextResolver == \E s \in ResolverSeries : CallSetTmdbId(s)

SpecResolver == InitResolver /\ [][NextResolver]_vars

---------------------------------------------------------------------------
(* SpecMap: __set_tmdb_id called directly, against a provider whose data
   may change between calls: each call gets its own answers *)

InitMap ==
    /\ InitCommon
    /\ catalog = <<>>

CallSetTmdbIdAny(s) ==
    \E find \in FindResponses, search \in SearchResponses :
        LET fn == s.full_name
            r == SetTmdbId(s, idMap, tmdb[fn], find, search)
        IN  /\ tmdb' = [tmdb EXCEPT ![fn] = r.tmdb]
            /\ idMap' = r.map
            /\ idFile' = IF r.saved THEN r.map ELSE idFile
            /\ resolveFailed' = IF r.exit = "no_results"
                                THEN resolveFailed \cup {fn}
                                ELSE resolveFailed
            /\ call' = [NoCall EXCEPT !.op = "set_tmdb_id", !.series = fn,
                           !.exit = r.exit, !.queries = r.queries,
                           !.repeat = (fn \in resolveFailed)]
            /\ UNCHANGED <<now, retryCount, blacklist, blFile, catalog>>

NextMap == \E s \in ResolverSeries : CallSetTmdbIdAny(s)

SpecMap == InitMap /\ [][NextMap]_vars

---------------------------------------------------------------------------
(* Episode matcher *)

\* a provider answer {'success': False}
NotFound == [success |-> FALSE]

\* an episode as the provider describes it
TmdbEpisode(name, season, episode) ==
    [name |-> name, season_number |-> season, episode_number |-> episode]

\* 'success' in info and not info['success']
Unsuccessful(info) == "success" \in DOMAIN info /\ ~info.success

\* Title.matches: equality of the normalized titles (case is ignored)
Normalized(title) == IF title = "t" THEN "T" ELSE title

Matches(title, name) == Normalized(title) = Normalized(name)

NoIndex == [season |-> None, episode |-> None]

\* mutant: the seasons are tried upwards from 0 (the reversal of the range
\* is lost); `season` counts the seasons still to try
RECURSIVE AbsoluteScanAscending(_, _, _, _)
AbsoluteScanAscending(tmdb_id, episode_info, abs, season) ==
    LET tried == episode_info.season_number - season
        info == abs[tried]
        q == Query("tv/episode", tmdb_id, tried, episode_info.abs_number)
    IN  IF "season_number" \in DOMAIN info \/ season = 0
        THEN [info |-> info, queries |-> <<q>>]
        ELSE LET rest == AbsoluteScanAscending(tmdb_id, episode_info, abs,
                                               season - 1)
             IN  [info |-> rest.info, queries |-> <<q>> \o rest.queries]

\* lines 348-353: the loop over the seasons, downwards from `season`, that
\* asks for (season, abs_number) until an answer has a 'season_number'
RECURSIVE AbsoluteScan(_, _, _, _)
AbsoluteScan(tmdb_id, episode_info, abs, season) ==
    LET info == abs[season]
        q == Query("tv/episode", tmdb_id, season, episode_info.abs_number)
    IN  IF "season_number" \in DOMAIN info \/ season = 0
        THEN [info |-> info, queries |-> <<q>>]
        ELSE LET rest == AbsoluteScan(tmdb_id, episode_info, abs, season - 1)
             IN  [info |-> rest.info, queries |-> <<q>> \o rest.queries]

\* lines 386-392: the first episode of a season's list whose title matches
RECURSIVE FirstMatch(_, _, _)
FirstMatch(episode_info, episodes, i) ==
    IF i > Len(episodes) THEN NoIndex
    ELSE IF Matches(episode_info.title, episodes[i].name)
    THEN [season |-> episodes[i].season_number,
          episode |-> episodes[i].episode_number]
    ELSE FirstMatch(episode_info, episodes, i + 1)

\* mutant: the loop runs one season too far (range(0, season_number+2));
\* the provider does not have the season after the episode's
RECURSIVE SeasonScanOneTooFar(_, _, _, _)
SeasonScanOneTooFar(tmdb_id, episode_info, seasons, season) ==
    IF season > episode_info.season_number + 1
    THEN [index |-> NoIndex, queries |-> <<>>]
    ELSE LET tmdb_season == IF season \in DOMAIN seasons THEN seasons[season]
                            ELSE NotFound
             q == Query("tv/season", tmdb_id, season, None)
         IN  IF Unsuccessful(tmdb_season)
             THEN [index |-> NoIndex, queries |-> <<q>>]
             ELSE LET hit == FirstMatch(episode_info, tmdb_season.episodes, 1)
                      rest == SeasonScanOneTooFar(tmdb_id, episode_info,
                                                  seasons, season + 1)
                  IN  IF hit # NoIndex
                      THEN [index |-> hit, queries |-> <<q>>]
                      ELSE [index |-> rest.index,
                            queries |-> <<q>> \o rest.queries]

\* mutant: a season the provider does not have is skipped and the scan
\* goes on with the next one
RECURSIVE SeasonScanSkipsMissing(_, _, _, _)
SeasonScanSkipsMissing(tmdb_id, episode_info, seasons, season) ==
    IF season > episode_info.season_number
    THEN [index |-> NoIndex, queries |-> <<>>]
    ELSE LET tmdb_season == seasons[season]
             q == Query("tv/season", tmdb_id, season, None)
             hit == IF Unsuccessful(tmdb_season) THEN NoIndex
                    ELSE FirstMatch(episode_info, tmdb_season.episodes, 1)
         IN  IF hit # NoIndex
             THEN [index |-> hit, queries |-> <<q>>]
             ELSE LET rest == SeasonScanSkipsMissing(tmdb_id, episode_info,
                                                     seasons, season + 1)
                  IN  [index |-> rest.index,
                       queries |-> <<q>> \o rest.queries]

\* lines 375-394: the loop over the seasons, upwards from `season`
RECURSIVE SeasonScan(_, _, _, _)
SeasonScan(tmdb_id, episode_info, seasons, season) ==
    IF season > episode_info.season_number
    THEN [index |-> NoIndex, queries |-> <<>>]
    ELSE LET tmdb_season == seasons[season]
             q == Query("tv/season", tmdb_id, season, None)
         IN  IF Unsuccessful(tmdb_season)
             THEN [index |-> NoIndex, queries |-> <<q>>]
             ELSE LET hit == FirstMatch(episode_info, tmdb_season.episodes, 1)
                  IN  IF hit # NoIndex
                      THEN [index |-> hit, queries |-> <<q>>]
                      ELSE LET rest == SeasonScan(tmdb_id, episode_info,
                                                  seasons, season + 1)
                           IN  [index |-> rest.index,
                                queries |-> <<q>> \o rest.queries]

\* mutant: with title_match, the cross-reference result is taken only if
\* the direct query confirms the episode
FindEpisodeTier1Titled(tmdb_id, episode_info, title_match, r) ==
    LET qFind == Query("find", episode_info.tvdb_id, None, None)
        q1 == IF episode_info.tvdb_id # None THEN <<qFind>> ELSE <<>>
    IN
    IF /\ episode_info.tvdb_id # None /\ Len(r.tier1) > 0
       /\ (title_match => tmdb_id # None /\ ~Unsuccessful(r.direct))
    THEN [index |-> [season |-> r.tier1[1].season_number,
                     episode |-> r.tier1[1].episode_number],
          tmdb |-> SetId(tmdb_id, r.tier1[1].show_id),
          queries |-> q1, exit |-> "tier1"]
    ELSE IF tmdb_id = None
    THEN [index |-> NoIndex, tmdb |-> tmdb_id, queries |-> q1,
          exit |-> "no_tmdb_id"]
    ELSE
    LET qDirect == Query("tv/episode", tmdb_id, episode_info.season_number,
                         episode_info.episode_number)
        scan == IF Unsuccessful(r.direct) /\ episode_info.abs_number # None
                THEN AbsoluteScan(tmdb_id, episode_info, r.abs,
                                  episode_info.season_number)
                ELSE [info |-> r.direct, queries |-> <<>>]
        tmdb_info == scan.info
        q2 == q1 \o <<qDirect>> \o scan.queries
        found == [season |-> tmdb_info.season_number,
                  episode |-> tmdb_info.episode_number]
    IN
    IF "name" \in DOMAIN tmdb_info /\ ~title_match
    THEN [index |-> found, tmdb |-> tmdb_id, queries |-> q2,
          exit |-> "index"]
    ELSE IF "name" \in DOMAIN tmdb_info
            /\ Matches(episode_info.title, tmdb_info.name)
    THEN [index |-> found, tmdb |-> tmdb_id, queries |-> q2,
          exit |-> "index_title"]
    ELSE LET all == SeasonScan(tmdb_id, episode_info, r.seasons, 0)
         IN  [index |-> all.index, tmdb |-> tmdb_id,
              queries |-> q2 \o all.queries,
              exit |-> IF all.index = NoIndex THEN "none" ELSE "season"]

\* mutant: the seasons are fetched before the candidate of the direct and
\* absolute queries is looked at
FindEpisodeEagerScan(tmdb_id, episode_info, title_match, r) ==
    LET qFind == Query("find", episode_info.tvdb_id, None, None)
        q1 == IF episode_info.tvdb_id # None THEN <<qFind>> ELSE <<>>
    IN
    IF episode_info.tvdb_id # None /\ Len(r.tier1) > 0
    THEN [index |-> [season |-> r.tier1[1].season_number,
                     episode |-> r.tier1[1].episode_number],
          tmdb |-> SetId(tmdb_id, r.tier1[1].show_id),
          queries |-> q1, exit |-> "tier1"]
    ELSE IF tmdb_id = None
    THEN [index |-> NoIndex, tmdb |-> tmdb_id, queries |-> q1,
          exit |-> "no_tmdb_id"]
    ELSE
    LET qDirect == Query("tv/episode", tmdb_id, episode_info.season_number,
                         episode_info.episode_number)
        scan == IF Unsuccessful(r.direct) /\ episode_info.abs_number # None
                THEN AbsoluteScan(tmdb_id, episode_info, r.abs,
                                  episode_info.season_number)
                ELSE [info |-> r.direct, queries |-> <<>>]
        tmdb_info == scan.info
        all == SeasonScan(tmdb_id, episode_info, r.seasons, 0)
        q2 == q1 \o <<qDirect>> \o scan.queries \o all.queries
        found == [season |-> tmdb_info.season_number,
                  episode |-> tmdb_info.episode_number]
    IN
    IF "name" \in DOMAIN tmdb_info /\ ~title_match
    THEN [index |-> found, tmdb |-> tmdb_id, queries |-> q2,
          exit |-> "index"]
    ELSE IF "name" \in DOMAIN tmdb_info
            /\ Matches(episode_info.title, tmdb_info.name)
    THEN [index |-> found, tmdb |-> tmdb_id, queries |-> q2,
          exit |-> "index_title"]
    ELSE [index |-> all.index, tmdb |-> tmdb_id, queries |-> q2,
          exit |-> IF all.index = NoIndex THEN "none" ELSE "season"]

\* mutant: a candidate is returned whether its title matches or not
FindEpisodeUntitled(tmdb_id, episode_info, title_match, r) ==
    LET qFind == Query("find", episode_info.tvdb_id, None, None)
        q1 == IF episode_info.tvdb_id # None THEN <<qFind>> ELSE <<>>
    IN
    IF episode_info.tvdb_id # None /\ Len(r.tier1) > 0
    THEN [index |-> [season |-> r.tier1[1].season_number,
                     episode |-> r.tier1[1].episode_number],
          tmdb |-> SetId(tmdb_id, r.tier1[1].show_id),
          queries |-> q1, exit |-> "tier1"]
    ELSE IF tmdb_id = None
    THEN [index |-> NoIndex, tmdb |-> tmdb_id, queries |-> q1,
          exit |-> "no_tmdb_id"]
    ELSE
    LET qDirect == Query("tv/episode", tmdb_id, episode_info.season_number,
                         episode_info.episode_number)
        scan == IF Unsuccessful(r.direct) /\ episode_info.abs_number # None
                THEN AbsoluteScan(tmdb_id, episode_info, r.abs,
                                  episode_info.season_number)
                ELSE [info |-> r.direct, queries |-> <<>>]
        tmdb_info == scan.info
        q2 == q1 \o <<qDirect>> \o scan.queries
        found == [season |-> tmdb_info.season_number,
                  episode |-> tmdb_info.episode_number]
    IN
    IF "name" \in DOMAIN tmdb_info
    THEN [index |-> found, tmdb |-> tmdb_id, queries |-> q2,
          exit |-> IF title_match THEN "index_title" ELSE "index"]
    ELSE LET all == SeasonScan(tmdb_id, episode_info, r.seasons, 0)
         IN  [index |-> all.index, tmdb |-> tmdb_id,
              queries |-> q2 \o all.queries,
              exit |-> IF all.index = NoIndex THEN "none" ELSE "season"]

\* mutant: the search goes on to the direct query without a provider ID
FindEpisodeUnresolved(tmdb_id, episode_info, title_match, r) ==
    LET qFind == Query("find", episode_info.tvdb_id, None, None)
        q1 == IF episode_info.tvdb_id # None THEN <<qFind>> ELSE <<>>
    IN
    IF episode_info.tvdb_id # None /\ Len(r.tier1) > 0
    THEN [index |-> [season |-> r.tier1[1].season_number,
                     episode |-> r.tier1[1].episode_number],
          tmdb |-> SetId(tmdb_id, r.tier1[1].show_id),
          queries |-> q1, exit |-> "tier1"]
    ELSE
    LET qDirect == Query("tv/episode", tmdb_id, episode_info.season_number,
                         episode_info.episode_number)
        scan == IF Unsuccessful(r.direct) /\ episode_info.abs_number # None
                THEN AbsoluteScan(tmdb_id, episode_info, r.abs,
                                  episode_info.season_number)
                ELSE [info |-> r.direct, queries |-> <<>>]
        tmdb_info == scan.info
        q2 == q1 \o <<qDirect>> \o scan.queries
        found == [season |-> tmdb_info.season_number,
                  episode |-> tmdb_info.episode_number]
    IN
    IF "name" \in DOMAIN tmdb_info /\ ~title_match
    THEN [index |-> found, tmdb |-> tmdb_id, queries |-> q2,
          exit |-> "index"]
    ELSE IF "name" \in DOMAIN tmdb_info
            /\ Matches(episode_info.title, tmdb_info.name)
    THEN [index |-> found, tmdb |-> tmdb_id, queries |-> q2,
          exit |-> "index_title"]
    ELSE LET all == SeasonScan(tmdb_id, episode_info, r.seasons, 0)
         IN  [index |-> all.index, tmdb |-> tmdb_id,
              queries |-> q2 \o all.queries,
              exit |-> IF all.index = NoIndex THEN "none" ELSE "season"]

\* __find_episode. r holds the provider's answers: r.tier1 the
\* 'tv_episode_results' of the cross-reference lookup, r.direct the answer
\* for (season, episode), r.abs[s] the answer for (s, abs_number),
\* r.seasons[s] the answer for season s; each is consulted only where the
\* code issues the query. The result is the index (NoIndex for None), the
\* series' tmdb_id, the queries issued and the return statement taken.
FindEpisode(tmdb_id, episode_info, title_match, r) ==
    LET qFind == Query("find", episode_info.tvdb_id, None, None)
        q1 == IF episode_info.tvdb_id # None THEN <<qFind>> ELSE <<>>
    IN
    IF episode_info.tvdb_id # None /\ Len(r.tier1) > 0
    THEN [index |-> [season |-> r.tier1[1].season_number,
                     episode |-> r.tier1[1].episode_number],
          tmdb |-> SetId(tmdb_id, r.tier1[1].show_id),
          queries |-> q1, exit |-> "tier1"]
    ELSE IF tmdb_id = None
    THEN [index |-> NoIndex, tmdb |-> tmdb_id, queries |-> q1,
          exit |-> "no_tmdb_id"]
    ELSE
    LET qDirect == Query("tv/episode", tmdb_id, episode_info.season_number,
                         episode_info.episode_number)
        scan == IF Unsuccessful(r.direct) /\ episode_info.abs_number # None
                THEN AbsoluteScan(tmdb_id, episode_info, r.abs,
                                  episode_info.season_number)
                ELSE [info |-> r.direct, queries |-> <<>>]
        tmdb_info == scan.info
        q2 == q1 \o <<qDirect>> \o scan.queries
        found == [season |-> tmdb_info.season_number,
                  episode |-> tmdb_info.episode_number]
    IN
    IF "name" \in DOMAIN tmdb_info /\ ~title_match
    THEN [index |-> found, tmdb |-> tmdb_id, queries |-> q2,
          exit |-> "index"]
    ELSE IF "name" \in DOMAIN tmdb_info
            /\ Matches(episode_info.title, tmdb_info.name)
    THEN [index |-> found, tmdb |-> tmdb_id, queries |-> q2,
          exit |-> "index_title"]
    ELSE LET all == SeasonScan(tmdb_id, episode_info, r.seasons, 0)
         IN  [index |-> all.index, tmdb |-> tmdb_id,
              queries |-> q2 \o all.queries,
              exit |-> IF all.index = NoIndex THEN "none" ELSE "season"]

---------------------------------------------------------------------------
(* Asset selectors *)

\* preferences.meets_minimum_resolution, for the configured minimum
MinWidth == 2

MinHeight == 2

\* the preferences of the orchestrator's runs
Preferences == [width |-> MinWidth, height |-> MinHeight]

MeetsMinimumResolution(preferences, width, height) ==
    width >= preferences.width /\ height >= preferences.height

\* int(image['vote_average']); the vote average is kept in tenths
Score(image) == image.vote_average \div 10

\* lines 414-430: the loop from index i on (Python's index i - 1), with the
\* best image so far and whether a valid image was seen
RECURSIVE BestImageLoop(_, _, _, _, _)
BestImageLoop(preferences, images, i, best_image, valid_image) ==
    IF i > Len(images) THEN [best |-> best_image, valid |-> valid_image]
    ELSE LET image == images[i]
             pixels == image.height * image.width
             score == Score(image)
             this == [index |-> i, pixels |-> pixels, score |-> score]
         IN  IF ~MeetsMinimumResolution(preferences, image.width,
                                        image.height)
             THEN BestImageLoop(preferences, images, i + 1, best_image,
                                valid_image)
             ELSE IF pixels > best_image.pixels
             THEN BestImageLoop(preferences, images, i + 1, this, TRUE)
             ELSE IF pixels = best_image.pixels /\ score > best_image.score
             THEN BestImageLoop(preferences, images, i + 1, this, TRUE)
             ELSE BestImageLoop(preferences, images, i + 1, best_image, TRUE)

\* __determine_best_image: the index of the image returned, 0 for None
DetermineBestImage(preferences, images) ==
    LET r == BestImageLoop(preferences, images, 1,
                           [index |-> 1, pixels |-> 0, score |-> 0], FALSE)
    IN  IF r.valid THEN r.best.index ELSE 0

\* GENERIC_TITLE_FORMATS: the text before and after {number}, for the
\* language codes whose format is plain ASCII
GenericTitleFormats ==
    [cs |-> <<"", ". epizoda">>, en |-> <<"Episode ", "">>,
     de |-> <<"Episode ", "">>, id |-> <<"Episode ", "">>,
     it |-> <<"Episodio ", "">>, pl |-> <<"Odcinek ", "">>,
     ro |-> <<"Episodul ", "">>, es |-> <<"Episodio ", "">>,
     th |-> <<"Episode ", "">>, vi |-> <<"Episode ", "">>]

\* generic.format(number=number)
Format(generic, number) == generic[1] \o ToString(number) \o generic[2]

\* mutant: the absolute number, where there is one, replaces the episode
\* number instead of being checked besides it
IsGenericTitleAbsOnly(title, language_code, episode_info) ==
    IF language_code \notin DOMAIN GenericTitleFormats THEN FALSE
    ELSE LET generic == GenericTitleFormats[language_code]
         IN  IF episode_info.abs_number # None
             THEN title = Format(generic, episode_info.abs_number)
             ELSE title = Format(generic, episode_info.episode_number)

\* __is_generic_title
IsGenericTitle(title, language_code, episode_info) ==
    IF language_code \notin DOMAIN GenericTitleFormats THEN FALSE
    ELSE LET generic == GenericTitleFormats[language_code]
         IN  IF episode_info.abs_number # None
             THEN title \in {Format(generic, episode_info.episode_number),
                             Format(generic, episode_info.abs_number)}
             ELSE title = Format(generic, episode_info.episode_number)

\* image['file_path'].endswith(('.png', '.svg')), .endswith('.svg'): a
\* logo's file_path is kept as its stem and its extension
Transparent(image) == image.ext \in {"png", "svg"}

\* lines 608-627: the loop from index i on, with the best logo so far and
\* whether a valid logo was seen
RECURSIVE BestLogoLoop(_, _, _, _)
BestLogoLoop(logos, i, best, valid_image) ==
    IF i > Len(logos) THEN [best |-> best, valid |-> valid_image]
    ELSE LET image == logos[i]
         IN  IF ~Transparent(image)
             THEN BestLogoLoop(logos, i + 1, best, valid_image)
             ELSE IF image.iso_639_1 # "en"
             THEN BestLogoLoop(logos, i + 1, best, valid_image)
             ELSE IF image.ext = "svg"
             THEN [best |-> i, valid |-> TRUE]
             ELSE IF image.width * image.height
                        > logos[best].width * logos[best].height
             THEN BestLogoLoop(logos, i + 1, i, TRUE)
             ELSE BestLogoLoop(logos, i + 1, best, TRUE)

\* get_series_logo lines 607-632 on a list of one logo or more: the index
\* of the logo whose URL is returned, 0 when none is valid
BestLogo(logos) ==
    LET r == BestLogoLoop(logos, 1, 1, FALSE)
    IN  IF r.valid THEN r.best ELSE 0

---------------------------------------------------------------------------
(* Query orchestrator *)

\* what a call of an orchestrator operation leaves: st is the state it ran
\* on (the blacklist, the identifier map, their files and the series'
\* tmdb_id) as the call left it, ret what it returned, exit the return
\* statement taken, queries the provider queries in the order issued,
\* updates the number of __update_blacklist calls made
Outcome(st, ret, exit, queries, updates) ==
    [st |-> st, ret |-> ret, exit |-> exit, queries |-> queries,
     updates |-> updates]

\* self.__update_blacklist(series_info, episode_info, query_type), with
\* its write of the blacklist file
RecordFailure(st, query_type, key, clk) ==
    [st EXCEPT
        !.blacklist = UpdateBlacklist(st.blacklist, query_type, key,
                                      clk.t1, clk.t2),
        !.blFile = UpdateFile(st.blFile, st.blacklist, query_type, key,
                              clk.t1, clk.t2)]

\* self.__set_tmdb_id(series_info), with its write of the map file
Resolved(st, series_info, answers) ==
    LET r == SetTmdbId(series_info, st.idMap, st.tmdb, answers.find,
                       answers.search)
    IN  [st |-> [st EXCEPT !.tmdb = r.tmdb, !.idMap = r.map,
                           !.idFile = IF r.saved THEN r.map ELSE @],
         queries |-> r.queries, exit |-> r.exit]

Url(file_path) == "https://image.tmdb.org/t/p/original" \o file_path

\* the return of lines 482-483, 543-544 and 591-592
Skipped(st) == Outcome(st, "None", "blacklisted", <<>>, 0)

\* mutant: the episode that was not found is not recorded as a failure
EpisodeNotFoundForgets(st, query_type, key, clk, queries) ==
    Outcome(st, "None", "no_episode", queries, 0)

\* lines 492-496 and 553-555: index == None
EpisodeNotFound(st, query_type, key, clk, queries) ==
    Outcome(RecordFailure(st, query_type, key, clk), "None", "no_episode",
            queries, 1)

\* mutant: the failure is recorded twice, the second time a day on
NoQualifyingResultTwice(st, query_type, key, clk, queries, exit) ==
    Outcome(RecordFailure(RecordFailure(st, query_type, key, clk),
                          query_type, key,
                          [clk EXCEPT !.t1 = @ + TicksPerDay,
                                      !.t2 = @ + TicksPerDay]),
            "None", exit, queries, 2)

\* lines 513-516, 520-524, 565-567, 571-574, 603-605 and 630-632: the
\* resource query gave nothing that qualifies
NoQualifyingResult(st, query_type, key, clk, queries, exit) ==
    Outcome(RecordFailure(st, query_type, key, clk), "None", exit,
            queries, 1)

\* mutant: a success forgets the key's earlier failures
SuccessClearsEntry(st, query_type, key, ret, queries, exit) ==
    Outcome([st EXCEPT !.blacklist[query_type] =
                [k \in DOMAIN @ \ {key} |-> @[k]]],
            ret, exit, queries, 0)

\* lines 526, 577 and 634: the URL or the title is returned
Success(st, query_type, key, ret, queries, exit) ==
    Outcome(st, ret, exit, queries, 0)

\* get_source_image lines 485-526, what follows the blacklist check.
\* clk.t1 and clk.t2 are the two clock reads of __update_blacklist; answers
\* holds the provider's answers to the queries the call issues.
SourceImageQueries(st, series_info, episode_info, title_match, clk, answers) ==
    LET key == BlacklistKey(series_info, episode_info, "image")
        res == Resolved(st, series_info, answers)
        found == FindEpisode(res.st.tmdb, episode_info, title_match,
                             answers.episode)
        st2 == [res.st EXCEPT !.tmdb = found.tmdb]
        q2 == res.queries \o found.queries
    IN
    IF found.index = NoIndex
    THEN EpisodeNotFound(st2, "image", key, clk, q2)
    ELSE
    LET q3 == q2 \o <<Query("tv/episode/images", st2.tmdb,
                            found.index.season, found.index.episode)>>
        results == answers.images
    IN
    IF "stills" \notin DOMAIN results
    THEN Outcome(st2, "None", "no_stills", q3, 0)
    ELSE IF Len(results.stills) = 0
    THEN NoQualifyingResult(st2, "image", key, clk, q3, "no_images")
    ELSE LET best == DetermineBestImage(Preferences, results.stills)
         IN  IF best = 0
             THEN NoQualifyingResult(st2, "image", key, clk, q3, "too_small")
             ELSE Success(st2, "image", key,
                          Url(results.stills[best].file_path), q3, "url")

\* mutant: the blacklist is not consulted
GetSourceImageUnchecked(st, retry, series_info, episode_info, title_match, clk, answers) ==
    SourceImageQueries(st, series_info, episode_info, title_match, clk,
                       answers)

\* get_source_image. clk.t0 is the clock that __is_blacklisted reads.
GetSourceImage(st, retry, series_info, episode_info, title_match, clk, answers) ==
    IF IsBlacklisted(st.blacklist, retry, "image",
                     BlacklistKey(series_info, episode_info, "image"),
                     clk.t0)
    THEN Skipped(st)
    ELSE SourceImageQueries(st, series_info, episode_info, title_match,
                            clk, answers)

\* get_episode_title lines 546-577, what follows the blacklist check;
\* results['name'] of line 569 raises KeyError when the answer has no name
EpisodeTitleQueries(st, series_info, episode_info, language_code, clk, answers) ==
    LET key == BlacklistKey(series_info, episode_info, "title")
        res == Resolved(st, series_info, answers)
        found == FindEpisode(res.st.tmdb, episode_info, TRUE,
                             answers.episode)
        st2 == [res.st EXCEPT !.tmdb = found.tmdb]
        q2 == res.queries \o found.queries
    IN
    IF found.index = NoIndex
    THEN EpisodeNotFound(st2, "title", key, clk, q2)
    ELSE
    LET q3 == q2 \o <<Query("tv/episode/language", st2.tmdb,
                            found.index.season, found.index.episode)>>
        results == answers.detail
    IN
    IF Unsuccessful(results)
    THEN NoQualifyingResult(st2, "title", key, clk, q3, "unsuccessful")
    ELSE IF "name" \notin DOMAIN results
    THEN Outcome(st2, "None", "raised", q3, 0)
    ELSE IF IsGenericTitle(results.name, language_code, episode_info)
    THEN NoQualifyingResult(st2, "title", key, clk, q3, "generic")
    ELSE Success(st2, "title", key, results.name, q3, "title")

\* mutant: get_episode_title does not consult the blacklist
GetEpisodeTitleUnchecked(st, retry, series_info, episode_info, language_code, clk, answers) ==
    EpisodeTitleQueries(st, series_info, episode_info, language_code, clk,
                        answers)

\* get_episode_title
GetEpisodeTitle(st, retry, series_info, episode_info, language_code, clk, answers) ==
    IF IsBlacklisted(st.blacklist, retry, "title",
                     BlacklistKey(series_info, episode_info, "title"),
                     clk.t0)
    THEN Skipped(st)
    ELSE EpisodeTitleQueries(st, series_info, episode_info, language_code,
                             clk, answers)

\* results.get('logos', [])
LogosOf(results) ==
    IF "logos" \in DOMAIN results THEN results.logos ELSE <<>>

\* get_series_logo lines 594-634, what follows the blacklist check
SeriesLogoQueries(st, series_info, clk, answers) ==
    LET key == BlacklistKey(series_info, NoEpisode, "logo")
        res == Resolved(st, series_info, answers)
        st2 == res.st
        q3 == res.queries \o <<Query("tv/images", st2.tmdb, None, None)>>
        logos == LogosOf(answers.logos)
    IN
    IF Len(logos) = 0
    THEN NoQualifyingResult(st2, "logo", key, clk, q3, "no_logos")
    ELSE LET best == BestLogo(logos)
         IN  IF best = 0
             THEN NoQualifyingResult(st2, "logo", key, clk, q3,
                                     "no_valid_logo")
             ELSE Success(st2, "logo", key, Url(logos[best].file_path), q3,
                          "url")

\* get_series_logo
GetSeriesLogo(st, retry, series_info, clk, answers) ==
    IF IsBlacklisted(st.blacklist, retry, "logo",
                     BlacklistKey(series_info, NoEpisode, "logo"), clk.t0)
    THEN Skipped(st)
    ELSE SeriesLogoQueries(st, series_info, clk, answers)

---------------------------------------------------------------------------
(* Spec: the three operations called in any order, at any time, against a
   provider that may answer each query in any way *)

\* the series and the episodes the operations are called for; the two
\* EpisodeInfo objects describe the same episode (the same key), one with
\* and one without TVDb ID and absolute number
OrchSeries == SeriesA

OrchEpisodes == {Episode(1, 2, 5, 9, "T"), Episode(1, 2, None, None, "T")}

LanguageCodes == {"en-US", "de"}

\* answers of the title+year search without results
NoResults == [total_results |-> 0, results |-> <<>>]

\* the answers a __set_tmdb_id call may get: the cross-reference lookup
\* and the search are answered only when the map has no ID for the series
SeriesAnswers(series_info, map) ==
    LET fn == series_info.full_name
        tv == series_info.tvdb_id
        cached == \/ tv # None /\ tv \in DOMAIN map.id
                  \/ fn \in DOMAIN map.name /\ Truthy(map.name[fn])
        finds == IF ~cached /\ tv # None
                 THEN {<<>>, <<MaxId>>} ELSE {<<>>}
        searches(f) == IF cached \/ (tv # None /\ Len(f) = 1)
                       THEN {NoResults}
                       ELSE {NoResults,
                             [total_results |-> 1, results |-> <<MaxId>>]}
    IN  UNION {{[find |-> f, search |-> sr] : sr \in searches(f)} :
                  f \in finds}

Seasons(episode_info) == 0 .. episode_info.season_number

\* answers of the cross-reference lookup for an episode
Tier1Responses ==
    {<<>>, <<[show_id |-> MaxId, season_number |-> 1, episode_number |-> 2]>>}

\* answers to a query for (season, episode)
EpisodeResponses(season, episode) ==
    {NotFound, TmdbEpisode("T", season, episode),
     TmdbEpisode("U", season, episode)}

NothingFound(episode_info) == [s \in Seasons(episode_info) |-> NotFound]

\* answers to the queries for the absolute number, season by season
AbsResponses(episode_info) ==
    {NothingFound(episode_info),
     [s \in Seasons(episode_info) |->
         IF s = episode_info.season_number
         THEN TmdbEpisode("t", s, episode_info.abs_number) ELSE NotFound]}

\* answers to the queries for whole seasons, season by season
SeasonsResponses(episode_info) ==
    {NothingFound(episode_info),
     [s \in Seasons(episode_info) |->
         IF s = episode_info.season_number
         THEN [episodes |-> <<TmdbEpisode("U", s, 1), TmdbEpisode("t", s, 2)>>]
         ELSE [episodes |-> <<TmdbEpisode("U", s, 1)>>]]}

\* the answers a __find_episode call may get: an answer is varied only
\* where the call issues its query
EpisodeAnswers(tmdb_id, episode_info, title_match) ==
    LET none == NothingFound(episode_info)
        ans(t1, d, a, ss) ==
            [tier1 |-> t1, direct |-> d, abs |-> a, seasons |-> ss]
        exit(r) == FindEpisode(tmdb_id, episode_info, title_match, r).exit
        tier1s == IF episode_info.tvdb_id # None
                  THEN Tier1Responses ELSE {<<>>}
        abss(d) == IF Unsuccessful(d) /\ episode_info.abs_number # None
                   THEN AbsResponses(episode_info) ELSE {none}
        seasons(t1, d, a) ==
            IF exit(ans(t1, d, a, none)) \in {"index", "index_title"}
            THEN {none} ELSE SeasonsResponses(episode_info)
        after(t1) ==
            IF exit(ans(t1, NotFound, none, none)) \in {"tier1", "no_tmdb_id"}
            THEN {ans(t1, NotFound, none, none)}
            ELSE UNION {UNION {{ans(t1, d, a, ss) : ss \in seasons(t1, d, a)} :
                                  a \in abss(d)} :
                           d \in EpisodeResponses(episode_info.season_number,
                                                  episode_info.episode_number)}
    IN  UNION {after(t1) : t1 \in tier1s}

\* stills of an episode: one below and one at the minimum resolution
SmallStill ==
    [width |-> MinWidth - 1, height |-> MinHeight, vote_average |-> 80,
     file_path |-> "/small.jpg"]

BigStill ==
    [width |-> MinWidth, height |-> MinHeight, vote_average |-> 55,
     file_path |-> "/big.jpg"]

\* a successful answer that lacks the fields the caller reads
Malformed == [id |-> MaxId]

\* answers to the query for an episode's images
ImagesResponses ==
    {NotFound, Malformed, [stills |-> <<>>], [stills |-> <<SmallStill>>],
     [stills |-> <<SmallStill, BigStill>>]}

\* answers to the query for an episode in a language
DetailResponses ==
    {NotFound, Malformed, [name |-> "Episode 2"], [name |-> "Episode 5"],
     [name |-> "Der Titel"]}

Logo(ext, language, width, height) ==
    [file_path |-> "/" \o language \o ToString(width) \o "." \o ext,
     ext |-> ext, iso_639_1 |-> language, width |-> width,
     height |-> height]

\* answers to the query for a series' images
LogosResponses ==
    {NotFound, [logos |-> <<>>], [logos |-> <<Logo("jpg", "en", 3, 3)>>],
     [logos |-> <<Logo("png", "fr", 3, 3), Logo("png", "en", 2, 2)>>]}

Init ==
    /\ InitCommon
    /\ catalog = <<>>

\* the interface's state as a call for the series finds it
State(series_info) ==
    [blacklist |-> blacklist, blFile |-> blFile, idMap |-> idMap,
     idFile |-> idFile, tmdb |-> tmdb[series_info.full_name]]

\* the clock reads of a call that starts now: those of __update_blacklist
\* follow the provider queries, which take time
Clocks(updates) ==
    IF updates
    THEN UNION {{[t0 |-> now, t1 |-> t1, t2 |-> t2] : t2 \in Later(t1)} :
                   t1 \in Later(now)}
    ELSE {[t0 |-> now, t1 |-> now, t2 |-> now]}

\* the call has returned: its outcome becomes the state and the call is
\* logged (resolve is the return that __set_tmdb_id took in it, results
\* the provider's answer to the call's query for the resource, where it is
\* issued); a call starts once the caller has taken the previous result
Return(op, query_type, series_info, episode_info, clk, out, resolve, results) ==
    LET key == BlacklistKey(series_info, episode_info, query_type) IN
    /\ now' = IF out.updates > 0 THEN clk.t2 ELSE now
    /\ blacklist' = out.st.blacklist
    /\ blFile' = out.st.blFile
    /\ idMap' = out.st.idMap
    /\ idFile' = out.st.idFile
    /\ tmdb' = [tmdb EXCEPT ![series_info.full_name] = out.st.tmdb]
    /\ call' = [NoCall EXCEPT !.op = op, !.qt = query_type, !.key = key,
                   !.series = series_info.full_name, !.t1 = clk.t1,
                   !.t2 = clk.t2, !.ret = out.ret, !.exit = out.exit,
                   !.queries = out.queries, !.updates = out.updates,
                   !.resolve = IF out.exit = "blacklisted" THEN "-"
                               ELSE resolve,
                   !.results = results,
                   !.blacklisted = IsBlacklisted(blacklist, retryCount,
                                                 query_type, key, now)]
    /\ UNCHANGED <<retryCount, catalog, resolveFailed>>

\* whether the call is one that the blacklist does not stop
Asks(query_type, series_info, episode_info) ==
    ~IsBlacklisted(blacklist, retryCount, query_type,
                   BlacklistKey(series_info, episode_info, query_type), now)

NoAnswers(episode_info) ==
    [find |-> <<>>, search |-> NoResults,
     episode |-> [tier1 |-> <<>>, direct |-> NotFound,
                  abs |-> NothingFound(episode_info),
                  seasons |-> NothingFound(episode_info)]]

CallGetSourceImage(episode_info, title_match) ==
    LET s == OrchSeries
        st == State(s)
        asks == Asks("image", s, episode_info)
        now0 == [t0 |-> now, t1 |-> now, t2 |-> now]
    IN
    /\ call = NoCall
    /\ \E sa \in IF asks THEN SeriesAnswers(s, idMap)
                 ELSE {[find |-> <<>>, search |-> NoResults]} :
       \E ea \in IF asks
                 THEN EpisodeAnswers(Resolved(st, s, sa).st.tmdb, episode_info,
                                     title_match)
                 ELSE {NoAnswers(episode_info).episode} :
       \E ia \in IF asks /\ FindEpisode(Resolved(st, s, sa).st.tmdb,
                                         episode_info, title_match,
                                         ea).index # NoIndex
                 THEN ImagesResponses ELSE {NotFound} :
           LET answers == [find |-> sa.find, search |-> sa.search,
                           episode |-> ea, images |-> ia]
               probe == GetSourceImage(st, retryCount, s, episode_info,
                                       title_match, now0, answers)
           IN  \E clk \in Clocks(probe.updates > 0) :
                   Return("get_source_image", "image", s, episode_info, clk,
                          GetSourceImage(st, retryCount, s, episode_info,
                                         title_match, clk, answers),
                          Resolved(st, s, sa).exit, ia)

CallGetEpisodeTitle(episode_info, language_code) ==
    LET s == OrchSeries
        st == State(s)
        asks == Asks("title", s, episode_info)
        now0 == [t0 |-> now, t1 |-> now, t2 |-> now]
    IN
    /\ call = NoCall
    /\ \E sa \in IF asks THEN SeriesAnswers(s, idMap)
                 ELSE {[find |-> <<>>, search |-> NoResults]} :
       \E ea \in IF asks
                 THEN EpisodeAnswers(Resolved(st, s, sa).st.tmdb, episode_info,
                                     TRUE)
                 ELSE {NoAnswers(episode_info).episode} :
       \E da \in IF asks /\ FindEpisode(Resolved(st, s, sa).st.tmdb,
                                         episode_info, TRUE,
                                         ea).index # NoIndex
                 THEN DetailResponses ELSE {NotFound} :
           LET answers == [find |-> sa.find, search |-> sa.search,
                           episode |-> ea, detail |-> da]
               probe == GetEpisodeTitle(st, retryCount, s, episode_info,
                                        language_code, now0, answers)
           IN  \E clk \in Clocks(probe.updates > 0) :
                   Return("get_episode_title", "title", s, episode_info, clk,
                          GetEpisodeTitle(st, retryCount, s, episode_info,
                                          language_code, clk, answers),
                          Resolved(st, s, sa).exit, da)

CallGetSeriesLogo ==
    LET s == OrchSeries
        st == State(s)
        asks == Asks("logo", s, NoEpisode)
        now0 == [t0 |-> now, t1 |-> now, t2 |-> now]
    IN
    /\ call = NoCall
    /\ \E sa \in IF asks THEN SeriesAnswers(s, idMap)
                 ELSE {[find |-> <<>>, search |-> NoResults]} :
       \E la \in IF asks THEN LogosResponses ELSE {NotFound} :
           LET answers == [find |-> sa.find, search |-> sa.search,
                           logos |-> la]
               probe == GetSeriesLogo(st, retryCount, s, now0, answers)
           IN  \E clk \in Clocks(probe.updates > 0) :
                   Return("get_series_logo", "logo", s, NoEpisode, clk,
                          GetSeriesLogo(st, retryCount, s, clk, answers),
                          Resolved(st, s, sa).exit, la)

\* the caller takes the result of the call and goes on
Continue ==
    /\ call # NoCall
    /\ call' = NoCall
    /\ UNCHANGED <<now, retryCount, blacklist, blFile, idMap, idFile, tmdb,
                   catalog, resolveFailed>>

Next ==
    \/ Tick
    \/ Continue
    \/ \E e \in OrchEpisodes, tm \in BOOLEAN : CallGetSourceImage(e, tm)
    \/ \E e \in OrchEpisodes, lc \in LanguageCodes : CallGetEpisodeTitle(e, lc)
    \/ CallGetSeriesLogo

Spec == Init /\ [][Next]_vars

---------------------------------------------------------------------------
(* SpecMatcher: __find_episode called directly, for every episode, series
   ID and provider content of the bounded sets below *)

MatcherSeries == SeriesA

MatcherEpisodes ==
    {Episode(1, 2, 5, 9, "T"), Episode(1, 2, 5, None, "T"),
     Episode(1, 2, None, 9, "T"), Episode(0, 2, None, None, "T")}

\* 'tv_episode_results' of the cross-reference lookup: none, one, or two
MatcherTier1 ==
    LET first == {[show_id |-> i, season_number |-> 2, episode_number |-> 1] :
                     i \in Ids}
        second == [show_id |-> 0, season_number |-> 1, episode_number |-> 2]
    IN  {<<>>} \cup {<<x>> : x \in first} \cup {<<x, second>> : x \in first}

\* what the provider holds for the call: an answer for each query the call
\* can issue
MatcherAnswers(episode_info) ==
    [tier1 : MatcherTier1,
     direct : EpisodeResponses(episode_info.season_number,
                               episode_info.episode_number),
     abs : [Seasons(episode_info) ->
               {NotFound, TmdbEpisode("t", 1, 9), TmdbEpisode("U", 1, 9)}],
     seasons : [Seasons(episode_info) ->
                   {NotFound, [episodes |-> <<TmdbEpisode("U", 1, 1)>>],
                    [episodes |-> <<TmdbEpisode("U", 1, 1),
                                    TmdbEpisode("t", 1, 2)>>]}]]

\* the arguments of the call with the provider's content
MatcherInputs ==
    UNION {[episode : {e}, title_match : BOOLEAN,
            answers : MatcherAnswers(e)] : e \in MatcherEpisodes}

InitMatcher ==
    /\ InitCommon
    /\ catalog \in MatcherInputs

\* the series object comes to the matcher with or without provider ID
SeriesResolved(id) ==
    /\ call = NoCall
    /\ tmdb[MatcherSeries.full_name] = None
    /\ tmdb' = [tmdb EXCEPT ![MatcherSeries.full_name] = id]
    /\ UNCHANGED <<now, retryCount, blacklist, blFile, idMap, idFile,
                   catalog, resolveFailed, call>>

CallFindEpisode ==
    LET fn == MatcherSeries.full_name
        r == FindEpisode(tmdb[fn], catalog.episode, catalog.title_match,
                         catalog.answers)
    IN  /\ call = NoCall
        /\ tmdb' = [tmdb EXCEPT ![fn] = r.tmdb]
        /\ call' = [NoCall EXCEPT !.op = "find_episode", !.series = fn,
                       !.exit = r.exit, !.queries = r.queries,
                       !.index = r.index]
        /\ UNCHANGED <<now, retryCount, blacklist, blFile, idMap, idFile,
                       catalog, resolveFailed>>

NextMatcher ==
    \/ \E id \in Ids : SeriesResolved(id)
    \/ CallFindEpisode

SpecMatcher == InitMatcher /\ [][NextMatcher]_vars

---------------------------------------------------------------------------
(* SpecSelectors: the asset selectors called directly, for every input of
   the bounded sets below *)

\* minimum resolutions the preferences may hold
Minimums ==
    {[width |-> 0, height |-> 0], [width |-> 1, height |-> 0],
     [width |-> 1, height |-> 1], [width |-> 2, height |-> 2]}

\* an image of the provider's list; the vote average is kept in tenths
Stills ==
    [width : 0 .. 2, height : 0 .. 2, vote_average : {0, 52, 59}]

\* Seq(S) up to the length n
RECURSIVE Lists(_, _)
Lists(S, n) ==
    IF n = 0 THEN {<<>>}
    ELSE LET shorter == Lists(S, n - 1)
         IN  shorter \cup {Append(l, x) : l \in shorter, x \in S}

ImageInputs ==
    [kind : {"image"}, preferences : Minimums,
     images : Lists(Stills, MaxImages)]

\* a logo of the provider's list
Logos ==
    {Logo(ext, language, size, size) :
         ext \in {"png", "svg", "jpg"}, language \in {"en", "fr"},
         size \in 1 .. 2}

\* the lists for which get_series_logo goes on to select: one logo or more
LogoInputs ==
    [kind : {"logo"}, logos : Lists(Logos, MaxImages) \ {<<>>}]

\* titles, language codes and episodes for __is_generic_title
TitleInputs ==
    [kind : {"title"},
     title : {"Episode 5", "Episode 9", "Episode 2", "Episodio 5",
              "9. epizoda", "Der Titel"},
     language_code : {"en", "en-US", "es", "cs", "xx"},
     episode : {Episode(1, 5, None, None, "T"), Episode(1, 5, 9, None, "T"),
                Episode(1, 2, 5, None, "T")}]

SelectorInputs == ImageInputs \cup LogoInputs \cup TitleInputs

InitSelectors ==
    /\ now = 0
    /\ retryCount = 0
    /\ blacklist = EmptyBlacklist
    /\ blFile = NoFile
    /\ idMap = EmptyIdMap
    /\ idFile = NoFile
    /\ tmdb = [s \in {SeriesA.full_name, SeriesB.full_name} |-> None]
    /\ resolveFailed = {}
    /\ call = NoCall
    /\ catalog \in SelectorInputs

CallDetermineBestImage ==
    /\ call = NoCall
    /\ catalog.kind = "image"
    /\ call' = [NoCall EXCEPT
                   !.op = "determine_best_image",
                   !.best = DetermineBestImage(catalog.preferences,
                                               catalog.images)]
    /\ UNCHANGED <<now, retryCount, blacklist, blFile, idMap, idFile, tmdb,
                   catalog, resolveFailed>>

\* the selection of get_series_logo, lines 607-632
CallBestLogo ==
    /\ call = NoCall
    /\ catalog.kind = "logo"
    /\ call' = [NoCall EXCEPT !.op = "best_logo",
                              !.best = BestLogo(catalog.logos)]
    /\ UNCHANGED <<now, retryCount, blacklist, blFile, idMap, idFile, tmdb,
                   catalog, resolveFailed>>

CallIsGenericTitle ==
    /\ call = NoCall
    /\ catalog.kind = "title"
    /\ call' = [NoCall EXCEPT
                   !.op = "is_generic_title",
                   !.ret = IF IsGenericTitle(catalog.title,
                                             catalog.language_code,
                                             catalog.episode)
                           THEN "True" ELSE "False"]
    /\ UNCHANGED <<now, retryCount, blacklist, blFile, idMap, idFile, tmdb,
                   catalog, resolveFailed>>

NextSelectors ==
    \/ CallDetermineBestImage
    \/ CallBestLogo
    \/ CallIsGenericTitle

SpecSelectors == InitSelectors /\ [][NextSelectors]_vars

---------------------------------------------------------------------------
(* SpecStore: one process, its interface objects, the two files, the saves *)
(* step by step, and crashes                                               *)

Instances == 1 .. MaxInstances

\* the top-level keys of a dump, in the order yaml.dump writes them (sorted)
BlacklistSections == <<"image", "logo", "title">>

IdMapSections == <<"id", "name">>

\* a file of which the first n top-level sections of map have been written;
\* n = 0 is the empty file that open('w') leaves
Dumped(map, sections, n) == [k \in {sections[j] : j \in 1 .. n} |-> map[k]]

\* __fix_blacklist lines 116-119: missing sections are created empty
FixBlacklist(loaded) ==
    [qt \in QueryTypes |-> IF qt \in DOMAIN loaded THEN loaded[qt] ELSE <<>>]

\* an interface object that has not been constructed
NoInstance ==
    [live |-> FALSE, shared |-> FALSE, blacklist |-> EmptyBlacklist,
     id_map |-> EmptyIdMap]

\* __init__ lines 76-87: the object constructed over the two files.  With
\* the blacklist file absent, self.__blacklist is the class attribute
\* __EMPTY_BLACKLIST itself (shared), not a copy of it.
Constructed(blacklist_file, id_file) ==
    [live |-> TRUE,
     shared |-> blacklist_file = NoFile,
     blacklist |-> IF blacklist_file = NoFile THEN EmptyBlacklist
                   ELSE FixBlacklist(blacklist_file),
     id_map |-> IF id_file = NoFile THEN EmptyIdMap ELSE id_file]

\* the process at its start: the class attribute __EMPTY_BLACKLIST of line
\* 54, no interface object, no call in flight (self = 0), the files as they
\* were before the save in flight, the keys and names that calls which have
\* returned recorded
NoProcess ==
    [empty |-> EmptyBlacklist, instances |-> [i \in Instances |-> NoInstance],
     self |-> 0, saved |-> NoFile, recorded |-> {}, crashed |-> FALSE]

\* self.__blacklist of instance i
BlacklistOf(process, i) ==
    IF process.instances[i].shared THEN process.empty
    ELSE process.instances[i].blacklist

\* the process after instance i has assigned into its self.__blacklist (lines
\* 167-172 mutate the dictionary in place)
WithBlacklist(process, i, bl) ==
    IF process.instances[i].shared
    THEN [process EXCEPT !.empty = bl]
    ELSE [process EXCEPT !.instances[i].blacklist = bl]

StoreTargets ==
    { [qt |-> "image", series |-> SeriesA, episode |-> Episode(1, 2, 5, 9, "T")],
      [qt |-> "logo", series |-> SeriesA, episode |-> NoEpisode] }

InitStore ==
    /\ now = 0
    /\ retryCount = 0
    /\ blacklist = EmptyBlacklist
    /\ blFile = NoFile
    /\ idMap = EmptyIdMap
    /\ idFile = NoFile
    /\ tmdb = [s \in {SeriesA.full_name, SeriesB.full_name} |-> None]
    /\ resolveFailed = {}
    /\ call = NoCall
    /\ catalog = NoProcess

Idle == ~catalog.crashed /\ catalog.self = 0

\* TMDbInterface(api_key), lines 59-91; i counts the objects constructed
Construct(i) ==
    /\ Idle
    /\ ~catalog.instances[i].live
    /\ \A j \in 1 .. i - 1 : catalog.instances[j].live
    /\ catalog' = [catalog EXCEPT !.instances[i] = Constructed(blFile, idFile)]
    /\ blacklist' = BlacklistOf(catalog', i)
    /\ idMap' = catalog'.instances[i].id_map
    /\ call' = [NoCall EXCEPT !.op = "construct"]
    /\ UNCHANGED <<now, retryCount, blFile, idFile, tmdb, resolveFailed>>

\* __update_blacklist lines 155-172 of instance i: the debounce branch
\* returns, the others change the dictionary and go on to the save
BeginUpdateBlacklist(i, c) ==
    LET key == BlacklistKey(c.series, c.episode, c.qt)
        bl == BlacklistOf(catalog, i)
        writes == UpdateWrites(bl, c.qt, key, now)
        new == UpdateBlacklist(bl, c.qt, key, now, now)
    IN  /\ Idle
        /\ catalog.instances[i].live
        /\ catalog' = IF writes
                      THEN [WithBlacklist(catalog, i, new) EXCEPT
                               !.self = i, !.saved = blFile]
                      ELSE catalog
        /\ blacklist' = new
        /\ idMap' = catalog.instances[i].id_map
        /\ call' = [NoCall EXCEPT !.op = "update_blacklist", !.qt = c.qt,
                       !.key = key, !.series = c.series.full_name,
                       !.t1 = now, !.t2 = now,
                       !.updates = IF writes THEN 1 ELSE 0,
                       !.exit = IF writes THEN "mutated" ELSE "returned"]
        /\ UNCHANGED <<now, retryCount, blFile, idFile, tmdb, resolveFailed>>

\* __add_id_to_map lines 224-229 of instance i
BeginAddIdToMap(i, series_info, tmdb_id) ==
    LET new == AddIdToMap(catalog.instances[i].id_map, series_info, tmdb_id)
    IN  /\ Idle
        /\ catalog.instances[i].live
        /\ catalog' = [catalog EXCEPT !.instances[i].id_map = new,
                                      !.self = i, !.saved = idFile]
        /\ blacklist' = BlacklistOf(catalog, i)
        /\ idMap' = new
        /\ call' = [NoCall EXCEPT !.op = "add_id_to_map",
                       !.series = series_info.full_name,
                       !.updates = 1, !.exit = "mutated"]
        /\ UNCHANGED <<now, retryCount, blFile, idFile, tmdb, resolveFailed>>

\* open('w') of lines 175 and 232: the file exists and is empty
OpenFile ==
    /\ ~catalog.crashed
    /\ call.exit = "mutated"
    /\ IF call.op = "update_blacklist"
       THEN blFile' = <<>> /\ UNCHANGED idFile
       ELSE idFile' = <<>> /\ UNCHANGED blFile
    /\ call' = [call EXCEPT !.exit = "open"]
    /\ UNCHANGED <<now, retryCount, blacklist, idMap, tmdb, catalog,
                   resolveFailed>>

\* dump of lines 176 and 233, one top-level section at a time; after the
\* last one the file is closed and the call returns
DumpSection ==
    LET blacklist_save == call.op = "update_blacklist"
        file == IF blacklist_save THEN blFile ELSE idFile
        sections == IF blacklist_save THEN BlacklistSections
                    ELSE IdMapSections
        map == IF blacklist_save THEN blacklist ELSE idMap
        n == Cardinality(DOMAIN file) + 1
        done == n = Len(sections)
        entry == IF blacklist_save THEN [qt |-> call.qt, key |-> call.key]
                 ELSE [qt |-> "name", key |-> call.series]
    IN  /\ ~catalog.crashed
        /\ call.exit = "open"
        /\ IF blacklist_save
           THEN blFile' = Dumped(map, sections, n) /\ UNCHANGED idFile
           ELSE idFile' = Dumped(map, sections, n) /\ UNCHANGED blFile
        /\ call' = [call EXCEPT !.exit = IF done THEN "returned" ELSE "open"]
        /\ catalog' = IF done
                      THEN [catalog EXCEPT !.self = 0,
                               !.recorded = @ \cup {entry}]
                      ELSE catalog
        /\ UNCHANGED <<now, retryCount, blacklist, idMap, tmdb, resolveFailed>>

\* the process dies during a save; the files stay as they are
Crash ==
    /\ ~catalog.crashed
    /\ catalog.self # 0
    /\ catalog' = [catalog EXCEPT !.crashed = TRUE]
    /\ UNCHANGED <<now, retryCount, blacklist, blFile, idMap, idFile, tmdb,
                   resolveFailed, call>>

\* db_blacklist.yml is removed while no call is in flight (the reset of the
\* blacklist); what it recorded is given up
RemoveBlacklistFile ==
    /\ Idle
    /\ blFile # NoFile
    /\ blFile' = NoFile
    /\ catalog' = [catalog EXCEPT
                      !.recorded = {r \in @ : r.qt \notin QueryTypes}]
    /\ call' = [NoCall EXCEPT !.op = "unlink"]
    /\ UNCHANGED <<now, retryCount, blacklist, idMap, idFile, tmdb,
                   resolveFailed>>

\* the attributes the class body defines (lines 21-57); inside the class a
\* name with two leading underscores refers to the attribute of that name
ClassAttributes ==
    {"API_BASE_URL", "BLACKLIST_THRESHOLD", "GENERIC_TITLE_FORMATS",
     "__BLACKLIST_FILE", "__EMPTY_BLACKLIST", "__ID_MAP"}

\* delete_blacklist lines 691-694: TMDbInterface.__BLACKLIST is looked up,
\* which raises AttributeError when the class has no such attribute;
\* otherwise unlink(missing_ok=True) removes the file if there is one
DeleteBlacklist ==
    LET found == "__BLACKLIST" \in ClassAttributes IN
    /\ Idle
    /\ blFile' = IF found THEN NoFile ELSE blFile
    /\ catalog' = IF found
                  THEN [catalog EXCEPT
                           !.recorded = {r \in @ : r.qt \notin QueryTypes}]
                  ELSE catalog
    /\ call' = [NoCall EXCEPT !.op = "delete_blacklist",
                   !.exit = IF found THEN "returned" ELSE "raised"]
    /\ UNCHANGED <<now, retryCount, blacklist, idMap, idFile, tmdb,
                   resolveFailed>>

NextStore ==
    \/ \E i \in Instances : Construct(i)
    \/ \E i \in Instances, c \in StoreTargets : BeginUpdateBlacklist(i, c)
    \/ \E i \in Instances, s \in ResolverSeries : BeginAddIdToMap(i, s, MaxId)
    \/ OpenFile
    \/ DumpSection
    \/ Crash
    \/ RemoveBlacklistFile
    \/ DeleteBlacklist

SpecStore == InitStore /\ [][NextStore]_vars

---------------------------------------------------------------------------
(* SpecLoad: an interface constructed over files of any content, and the   *)
(* calls made on it.  What safe_load returns is a value with its Python    *)
(* type; a dictionary carries its items.                                   *)

\* a file yaml cannot parse: safe_load raises
Unparseable == [type |-> "unparseable"]

\* what safe_load returns for an empty file
PyNone == [type |-> "NoneType"]

PyList == [type |-> "list"]

PyInt == [type |-> "int"]

PyStr == [type |-> "str"]

PyDict(items) == [type |-> "dict", items |-> items]

\* a key an entry does not have
Missing == [type |-> "missing"]

IntOf(n) == [type |-> "int", value |-> n]

TimeOf(t) == [type |-> "datetime", value |-> t]

\* a blacklist entry that is a dictionary
Entry(failures, next) == [type |-> "dict", failures |-> failures, next |-> next]

\* __fix_blacklist lines 121-138 for one entry, t being datetime.now(): the
\* branches are one if/elif chain, so one defect is repaired per entry
FixEntry(entry, t) ==
    IF entry.type # "dict" THEN Entry(IntOf(1), TimeOf(t))
    ELSE IF entry.failures.type = "missing"
    THEN [entry EXCEPT !.failures = IntOf(1)]
    ELSE IF entry.failures.type # "int"
    THEN [entry EXCEPT !.failures = IntOf(1)]
    ELSE IF entry.next.type = "missing"
    THEN [entry EXCEPT !.next = TimeOf(t)]
    ELSE IF entry.next.type # "datetime"
    THEN [entry EXCEPT !.next = TimeOf(t)]
    ELSE entry

\* the class attribute __EMPTY_BLACKLIST of line 54
EmptyBlacklistDict == PyDict([qt \in QueryTypes |-> PyDict(<<>>)])

\* __fix_blacklist lines 111-140 for any loaded value: whether it raises
\* (line 123 iterates over a section that is not iterable), whether it
\* returns the class attribute, and the blacklist it returns
FixBlacklistAny(loaded, t) ==
    IF loaded.type # "dict"
    THEN [raised |-> FALSE, shared |-> TRUE, blacklist |-> EmptyBlacklistDict]
    ELSE LET items == loaded.items
             sectioned ==
                 [k \in DOMAIN items \cup QueryTypes |->
                     IF k \in QueryTypes
                        /\ (k \notin DOMAIN items \/ items[k].type # "dict")
                     THEN PyDict(<<>>)
                     ELSE items[k]]
         IN  IF \E k \in DOMAIN sectioned : sectioned[k].type # "dict"
             THEN [raised |-> TRUE, shared |-> FALSE, blacklist |-> loaded]
             ELSE [raised |-> FALSE, shared |-> FALSE,
                   blacklist |->
                       PyDict([k \in DOMAIN sectioned |->
                                  PyDict([key \in DOMAIN sectioned[k].items |->
                                             FixEntry(sectioned[k].items[key],
                                                      t)])])]

\* __init__ lines 76-87 over files of any content: whether it raises, and
\* the maps the object holds
Loaded(blacklist_file, id_file, t) ==
    LET fixed == IF blacklist_file = NoFile \/ blacklist_file = Unparseable
                 THEN FixBlacklistAny(PyNone, t)
                 ELSE FixBlacklistAny(blacklist_file, t)
    IN  [raised |-> \/ id_file = Unparseable
                    \/ blacklist_file = Unparseable
                    \/ fixed.raised,
         blacklist |-> fixed.blacklist,
         id_map |-> IF id_file = NoFile THEN PyDict(EmptyIdMap) ELSE id_file]

\* __is_blacklisted lines 192-212 on a blacklist of any content: "True",
\* "False", or "raised" (a KeyError of lines 207 and 212, a TypeError of the
\* comparisons of lines 208 and 212)
IsBlacklistedAny(bl, retry, query_type, key, t) ==
    IF query_type \notin DOMAIN bl.items THEN "False"
    ELSE IF key \notin DOMAIN bl.items[query_type].items THEN "False"
    ELSE LET entry == bl.items[query_type].items[key] IN
         IF entry.type # "dict" THEN "raised"
         ELSE IF entry.failures.type # "int" THEN "raised"
         ELSE IF entry.failures.value > retry THEN "True"
         ELSE IF entry.next.type # "datetime" THEN "raised"
         ELSE IF t < entry.next.value THEN "True" ELSE "False"

\* __update_blacklist lines 161-172 on a blacklist of any content: whether
\* it raises, whether it reaches the dump, and the new blacklist
UpdateBlacklistAny(bl, query_type, key, t) ==
    LET later == TimeOf(t + TicksPerDay)
        section == bl.items[query_type].items
        entry == section[key]
    IN  IF key \in DOMAIN section
        THEN IF entry.type # "dict" \/ entry.next.type # "datetime"
             THEN [raised |-> TRUE, writes |-> FALSE, blacklist |-> bl]
             ELSE IF t >= entry.next.value
             THEN IF entry.failures.type # "int"
                  THEN [raised |-> TRUE, writes |-> FALSE, blacklist |-> bl]
                  ELSE [raised |-> FALSE, writes |-> TRUE,
                        blacklist |->
                            [bl EXCEPT !.items[query_type].items[key] =
                                Entry(IntOf(entry.failures.value + 1), later)]]
             ELSE [raised |-> FALSE, writes |-> FALSE, blacklist |-> bl]
        ELSE [raised |-> FALSE, writes |-> TRUE,
              blacklist |->
                  [bl EXCEPT !.items[query_type].items =
                      Put(@, key, Entry(IntOf(1), later))]]

\* __set_tmdb_id lines 246-252 on an identifier map of any content: whether
\* the lookups raise (the map is not subscriptable, or lacks the section)
SetTmdbIdRaises(map, series_info) ==
    IF map.type # "dict" THEN TRUE
    ELSE \/ series_info.tvdb_id # None /\ "id" \notin DOMAIN map.items
         \/ "name" \notin DOMAIN map.items

\* the answers of the title+year search drawn in SpecLoad
LoadSearches ==
    {[total_results |-> Len(r), results |-> r] : r \in {<<>>, <<MaxId>>}}

\* the key the calls of SpecLoad ask about
LoadTarget ==
    [qt |-> "image", series |-> SeriesA, episode |-> Episode(1, 2, 5, 9, "T")]

LoadKey == BlacklistKey(LoadTarget.series, LoadTarget.episode, LoadTarget.qt)

\* the values of an entry's 'failures' and 'next' in a file
FailuresInFile == {Missing, PyStr, IntOf(1)}

NextInFile == {Missing, PyStr, TimeOf(0), TimeOf(TicksPerDay)}

\* the sections of a blacklist file: of the wrong type, empty, or with one
\* entry, well-formed or not
SectionsInFile ==
    {PyInt, PyDict(<<>>), PyDict(Put(<<>>, LoadKey, PyStr))} \cup
    {PyDict(Put(<<>>, LoadKey, Entry(f, n))) :
        f \in FailuresInFile, n \in NextInFile}

\* the contents of db_blacklist.yml: unparseable, empty, not a map, a map
\* without or with the section image, without or with a foreign key
BlacklistFiles ==
    {NoFile, Unparseable, PyNone, PyList, PyDict(<<>>)} \cup
    {PyDict([image |-> x]) : x \in SectionsInFile} \cup
    {PyDict([image |-> PyDict(<<>>), foreign |-> x]) :
        x \in {PyInt, PyDict(<<>>), PyDict(Put(<<>>, LoadKey, PyStr))}}

\* the contents of db_id_map.yml: unparseable, empty, not a map, a map
\* without one of its sections, a well-formed map
IdMapFiles ==
    {NoFile, Unparseable, PyNone, PyList, PyDict(EmptyIdMap),
     PyDict([name |-> <<>>]), PyDict([id |-> <<>>]),
     PyDict(AddIdToMap(EmptyIdMap, SeriesA, MaxId))}

InitLoad ==
    /\ now = 0
    /\ retryCount \in 0 .. MaxRetry
    /\ blFile \in BlacklistFiles
    /\ idFile \in IdMapFiles
    /\ blacklist = EmptyBlacklistDict
    /\ idMap = PyDict(EmptyIdMap)
    /\ tmdb = [s \in {SeriesA.full_name, SeriesB.full_name} |-> None]
    /\ resolveFailed = {}
    /\ call = NoCall
    /\ catalog = [live |-> FALSE]

\* a call can be made: the object exists and no call has raised
Usable == catalog.live /\ call.exit # "raised"

\* TMDbInterface(api_key)
Load ==
    LET r == Loaded(blFile, idFile, now) IN
    /\ ~catalog.live
    /\ call = NoCall
    /\ catalog' = [live |-> ~r.raised]
    /\ blacklist' = IF r.raised THEN blacklist ELSE r.blacklist
    /\ idMap' = IF r.raised THEN idMap ELSE r.id_map
    /\ call' = [NoCall EXCEPT !.op = "construct",
                   !.exit = IF r.raised THEN "raised" ELSE "returned"]
    /\ UNCHANGED <<now, retryCount, blFile, idFile, tmdb, resolveFailed>>

CallIsBlacklistedLoaded ==
    LET r == IsBlacklistedAny(blacklist, retryCount, LoadTarget.qt, LoadKey,
                              now)
    IN  /\ Usable
        /\ call' = [NoCall EXCEPT !.op = "is_blacklisted",
                       !.qt = LoadTarget.qt, !.key = LoadKey,
                       !.series = LoadTarget.series.full_name, !.t1 = now,
                       !.ret = IF r = "raised" THEN "None" ELSE r,
                       !.exit = IF r = "raised" THEN "raised" ELSE "returned"]
        /\ UNCHANGED <<now, retryCount, blacklist, blFile, idMap, idFile,
                       tmdb, catalog, resolveFailed>>

CallUpdateBlacklistLoaded ==
    LET r == UpdateBlacklistAny(blacklist, LoadTarget.qt, LoadKey, now)
    IN  /\ Usable
        /\ blacklist' = r.blacklist
        /\ blFile' = IF r.writes THEN r.blacklist ELSE blFile
        /\ call' = [NoCall EXCEPT !.op = "update_blacklist",
                       !.qt = LoadTarget.qt, !.key = LoadKey,
                       !.series = LoadTarget.series.full_name,
                       !.t1 = now, !.t2 = now,
                       !.updates = IF r.writes THEN 1 ELSE 0,
                       !.exit = IF r.raised THEN "raised" ELSE "returned"]
        /\ UNCHANGED <<now, retryCount, idMap, idFile, tmdb, catalog,
                       resolveFailed>>

CallSetTmdbIdLoaded(s) ==
    \E find \in {<<>>, <<MaxId>>}, search \in LoadSearches :
        LET fn == s.full_name
            raised == SetTmdbIdRaises(idMap, s)
            r == SetTmdbId(s, idMap.items, tmdb[fn], find, search)
        IN  /\ Usable
            /\ tmdb' = IF raised THEN tmdb ELSE [tmdb EXCEPT ![fn] = r.tmdb]
            /\ idMap' = IF raised THEN idMap ELSE PyDict(r.map)
            /\ idFile' = IF ~raised /\ r.saved THEN PyDict(r.map) ELSE idFile
            /\ call' = [NoCall EXCEPT !.op = "set_tmdb_id", !.series = fn,
                           !.exit = IF raised THEN "raised" ELSE "returned",
                           !.resolve = IF raised THEN "-" ELSE r.exit,
                           !.queries = IF raised THEN <<>> ELSE r.queries]
            /\ UNCHANGED <<now, retryCount, blacklist, blFile, catalog,
                           resolveFailed>>

NextLoad ==
    \/ Tick
    \/ Load
    \/ CallIsBlacklistedLoaded
    \/ CallUpdateBlacklistLoaded
    \/ \E s \in ResolverSeries : CallSetTmdbIdLoaded(s)

SpecLoad == InitLoad /\ [][NextLoad]_vars

---------------------------------------------------------------------------
(* SpecCallers: two callers of one interface object whose calls interleave *)
(* wherever one of them waits for the provider or is between two           *)
(* statements.  The code takes no lock anywhere.                           *)

Callers == {1, 2}

\* a caller that is in no call
IdleCaller == [pc |-> "idle", series |-> SeriesA, later |-> None]

\* the key the callers record failures for
CallersTarget ==
    [qt |-> "logo", series |-> SeriesA, episode |-> NoEpisode]

CallersKey ==
    BlacklistKey(CallersTarget.series, CallersTarget.episode, CallersTarget.qt)

InitCallers ==
    /\ now = 0
    /\ retryCount = 0
    /\ blacklist = EmptyBlacklist
    /\ blFile = NoFile
    /\ idMap = EmptyIdMap
    /\ idFile = NoFile
    /\ tmdb = [s \in {SeriesA.full_name, SeriesB.full_name} |-> None]
    /\ resolveFailed = {}
    /\ call = NoCall
    /\ catalog \in [callers : {[c \in Callers |-> IdleCaller]},
                    answers : [{SeriesA.full_name, SeriesB.full_name} ->
                                  [find : {<<>>, <<MaxId>>},
                                   search : LoadSearches]]]

\* the step of caller c is logged as the last call
Step(c, op, series_info, exit) ==
    [NoCall EXCEPT !.op = op, !.series = series_info.full_name,
                   !.exit = exit, !.best = c]

\* __set_tmdb_id lines 246-254 by caller c: a mapped series returns at once,
\* for another one the first provider query is sent (line 260 or 285)
BeginSetTmdbId(c, s) ==
    LET fn == s.full_name
        tv == s.tvdb_id
        me == catalog.callers[c]
        by_id == tv # None /\ tv \in DOMAIN idMap.id
        by_name == fn \in DOMAIN idMap.name /\ Truthy(idMap.name[fn])
    IN  /\ me.pc = "idle"
        /\ tmdb' = IF by_id THEN [tmdb EXCEPT ![fn] = SetId(@, idMap.id[tv])]
                   ELSE IF by_name
                   THEN [tmdb EXCEPT ![fn] = SetId(@, idMap.name[fn])]
                   ELSE tmdb
        /\ catalog' = IF by_id \/ by_name THEN catalog
                      ELSE [catalog EXCEPT !.callers[c] =
                               [pc |-> IF tv # None THEN "find" ELSE "search",
                                series |-> s, later |-> None]]
        /\ call' = Step(c, "set_tmdb_id", s,
                        IF by_id THEN "map_id"
                        ELSE IF by_name THEN "map_name" ELSE "querying")
        /\ UNCHANGED <<now, retryCount, blacklist, blFile, idMap, idFile,
                       resolveFailed>>

\* lines 260-275: the cross-reference lookup of caller c is answered
FindAnswered(c) ==
    LET me == catalog.callers[c]
        s == me.series
        fn == s.full_name
        find == catalog.answers[fn].find
        one == Len(find) = 1
        id == SetId(tmdb[fn], find[1])
    IN  /\ me.pc = "find"
        /\ tmdb' = IF one THEN [tmdb EXCEPT ![fn] = id] ELSE tmdb
        /\ idMap' = IF one THEN AddIdToMap(idMap, s, id) ELSE idMap
        /\ idFile' = IF one THEN idMap' ELSE idFile
        /\ catalog' = [catalog EXCEPT !.callers[c] =
                          IF one THEN IdleCaller
                          ELSE [me EXCEPT !.pc = "search"]]
        /\ call' = Step(c, "set_tmdb_id", s, IF one THEN "find" ELSE "querying")
        /\ UNCHANGED <<now, retryCount, blacklist, blFile, resolveFailed>>

\* lines 285-292: the title+year search of caller c is answered
SearchAnswered(c) ==
    LET me == catalog.callers[c]
        s == me.series
        fn == s.full_name
        search == catalog.answers[fn].search
        none == search.total_results = 0
        id == SetId(tmdb[fn], search.results[1])
    IN  /\ me.pc = "search"
        /\ tmdb' = IF none THEN tmdb ELSE [tmdb EXCEPT ![fn] = id]
        /\ idMap' = IF none THEN idMap ELSE AddIdToMap(idMap, s, id)
        /\ idFile' = IF none THEN idFile ELSE idMap'
        /\ resolveFailed' = IF none THEN resolveFailed \cup {fn}
                            ELSE resolveFailed
        /\ catalog' = [catalog EXCEPT !.callers[c] = IdleCaller]
        /\ call' = Step(c, "set_tmdb_id", s,
                        IF none THEN "no_results" ELSE "search")
        /\ UNCHANGED <<now, retryCount, blacklist, blFile>>

\* __update_blacklist lines 162-169 by caller c: later is computed, the key
\* is looked up and its next is compared with the clock; the debounce
\* branch returns
BeginUpdate(c) ==
    LET me == catalog.callers[c]
        section == blacklist[CallersTarget.qt]
        present == CallersKey \in DOMAIN section
        due == present /\ now >= section[CallersKey].next
    IN  /\ me.pc = "idle"
        /\ catalog' = IF present /\ ~due THEN catalog
                      ELSE [catalog EXCEPT !.callers[c] =
                               [pc |-> IF due THEN "due" ELSE "new",
                                series |-> CallersTarget.series,
                                later |-> now + TicksPerDay]]
        /\ call' = [Step(c, "update_blacklist", CallersTarget.series,
                         IF present /\ ~due THEN "returned" ELSE "checked")
                       EXCEPT !.qt = CallersTarget.qt, !.key = CallersKey]
        /\ UNCHANGED <<now, retryCount, blacklist, blFile, idMap, idFile,
                       tmdb, resolveFailed>>

\* lines 166-176 by caller c: the entry is incremented (166-167) or created
\* (172), and the blacklist is written
FinishUpdate(c) ==
    LET me == catalog.callers[c]
        qt == CallersTarget.qt
    IN  /\ me.pc \in {"due", "new"}
        /\ blacklist' =
               IF me.pc = "due"
               THEN [blacklist EXCEPT ![qt][CallersKey] =
                        [failures |-> @.failures + 1, next |-> me.later]]
               ELSE [blacklist EXCEPT ![qt] =
                        Put(@, CallersKey,
                            [failures |-> 1, next |-> me.later])]
        /\ blFile' = blacklist'
        /\ catalog' = [catalog EXCEPT !.callers[c] = IdleCaller]
        /\ call' = [Step(c, "update_blacklist", CallersTarget.series,
                         "returned")
                       EXCEPT !.qt = qt, !.key = CallersKey, !.updates = 1]
        /\ UNCHANGED <<now, retryCount, idMap, idFile, tmdb, resolveFailed>>

NextCallers ==
    \/ Tick
    \/ \E c \in Callers, s \in ResolverSeries : BeginSetTmdbId(c, s)
    \/ \E c \in Callers : FindAnswered(c)
    \/ \E c \in Callers : SearchAnswered(c)
    \/ \E c \in Callers : BeginUpdate(c)
    \/ \E c \in Callers : FinishUpdate(c)

SpecCallers == InitCallers /\ [][NextCallers]_vars

---------------------------------------------------------------------------
(* SpecTransport: get_series_logo against a provider whose answer to the   *)
(* query for the series' images arrives with an HTTP status, or does not   *)
(* arrive                                                                  *)

\* the body the provider sends with a status other than 2xx
ErrorBody == NotFound

\* what the transport brings back from the query for the series' images:
\* a 2xx answer, an answer with another status and the provider's error
\* body, no answer (network failure), or a body that is not JSON
Responses ==
    {[kind |-> "ok", status |-> 200, body |-> b] :
        b \in LogosResponses \ {NotFound}} \cup
    {[kind |-> "status", status |-> n, body |-> ErrorBody] :
        n \in {401, 404, 500}} \cup
    {[kind |-> "network", status |-> None, body |-> ErrorBody],
     [kind |-> "malformed", status |-> 200, body |-> ErrorBody]}

\* get(url=url, params=params).json(): the decoded body whatever the
\* status is; a network failure and a body that is not JSON raise
Get(response) ==
    [raised |-> response.kind \in {"network", "malformed"},
     results |-> response.body]

\* get_series_logo lines 594-634 with the transport of its last query
GetSeriesLogoOver(st, retry, series_info, clk, sa, response) ==
    LET res == Resolved(st, series_info, sa)
        got == Get(response)
    IN  IF IsBlacklisted(st.blacklist, retry, "logo",
                         BlacklistKey(series_info, NoEpisode, "logo"), clk.t0)
        THEN Skipped(st)
        ELSE IF got.raised
        THEN Outcome(res.st, "raised", "raised",
                     res.queries \o <<Query("tv/images", res.st.tmdb, None,
                                            None)>>, 0)
        ELSE GetSeriesLogo(st, retry, series_info, clk,
                           [find |-> sa.find, search |-> sa.search,
                            logos |-> got.results])

InitTransport ==
    /\ InitCommon
    /\ catalog \in Responses

CallGetSeriesLogoOver ==
    LET s == OrchSeries
        st == State(s)
        asks == Asks("logo", s, NoEpisode)
        now0 == [t0 |-> now, t1 |-> now, t2 |-> now]
    IN
    /\ call = NoCall
    /\ \E sa \in IF asks THEN SeriesAnswers(s, idMap)
                 ELSE {[find |-> <<>>, search |-> NoResults]} :
           LET probe == GetSeriesLogoOver(st, retryCount, s, now0, sa, catalog)
           IN  \E clk \in Clocks(probe.updates > 0) :
                   Return("get_series_logo", "logo", s, NoEpisode, clk,
                          GetSeriesLogoOver(st, retryCount, s, clk, sa,
                                            catalog),
                          Resolved(st, s, sa).exit, Get(catalog).results)

NextTransport ==
    \/ Tick
    \/ Continue
    \/ CallGetSeriesLogoOver

SpecTransport == InitTransport /\ [][NextTransport]_vars

---------------------------------------------------------------------------
(* SpecLegacy: config/DatabaseInterface.py, the earlier interface.  Its    *)
(* blacklist is a list of keys, its identifier map a dictionary from       *)
(* "title (year)" to the ID; both are pickled to their files.  blacklist   *)
(* holds the list, idMap the dictionary.                                   *)

\* the requests the calls of SpecLegacy are made for
LegacyTargets ==
    {[series |-> SeriesA, season |-> 1, episode |-> 2],
     [series |-> SeriesA, season |-> 1, episode |-> 3],
     [series |-> SeriesB, season |-> 1, episode |-> 2]}

\* f'{title} ({year})-{season}-{episode}'
LegacyKey(c) ==
    c.series.full_name \o "-" \o ToString(c.season) \o "-"
        \o ToString(c.episode)

\* a file that pickle.dump has written
Pickled(value) == [exists |-> TRUE, pickled |-> value]

\* mutant: only the entry added last is compared
IsInBlacklistLast(list, key) ==
    Len(list) > 0 /\ list[Len(list)] = key

\* __is_in_blacklist: key in self.__blacklist
IsInBlacklist(list, key) == \E i \in 1 .. Len(list) : list[i] = key

\* __add_to_blacklist: the key is appended and the list is dumped
AddToBlacklist(st, key) ==
    [st EXCEPT !.blacklist = Append(@, key),
               !.blFile = Pickled(Append(st.blacklist, key))]

\* __get_tv_id: the ID returned (None without search results), the map and
\* its file after the call, and the queries issued
GetTvId(st, full_title, search) ==
    IF full_title \in DOMAIN st.idMap
    THEN [id |-> st.idMap[full_title], st |-> st, queries |-> <<>>]
    ELSE LET qSearch == Query("search/tv", None, None, None) IN
         IF search.total_results = 0
         THEN [id |-> None, st |-> st, queries |-> <<qSearch>>]
         ELSE LET new_id == search.results[1]
                  map == Put(st.idMap, full_title, new_id)
              IN  [id |-> new_id,
                   st |-> [st EXCEPT !.idMap = map, !.idFile = Pickled(map)],
                   queries |-> <<qSearch>>]

\* DatabaseInterface.__determine_best_image: the index of the image
\* returned.  Its loop is the loop of lines 414-430 of TMDbInterface
\* without the minimum resolution.
LegacyBestImage(images) ==
    IF Len(images) = 1 THEN 1
    ELSE BestImageLoop([width |-> 0, height |-> 0], images, 1,
                       [index |-> 1, pixels |-> 0, score |-> 0],
                       FALSE).best.index

\* get_title_card_source_image: st is the interface's state (blacklist,
\* identifier map and their files), answers the provider's answers to the
\* queries the call issues
GetTitleCardSourceImage(st, c, answers) ==
    IF IsInBlacklist(st.blacklist, LegacyKey(c))
    THEN Outcome(st, "None", "blacklisted", <<>>, 0)
    ELSE
    LET tv == GetTvId(st, c.series.full_name, answers.search)
        q == tv.queries \o <<Query("tv/episode/images", tv.id, c.season,
                                   c.episode)>>
        results == answers.images
    IN  IF "stills" \notin DOMAIN results
        THEN Outcome(AddToBlacklist(tv.st, LegacyKey(c)), "None",
                     "no_stills", q, 1)
        ELSE IF Len(results.stills) = 0
        THEN Outcome(AddToBlacklist(tv.st, LegacyKey(c)), "None",
                     "no_images", q, 1)
        ELSE Outcome(tv.st,
                     Url(results.stills[LegacyBestImage(results.stills)]
                             .file_path),
                     "url", q, 0)

\* DatabaseInterface(api_key) without files: lines 30-41
InitLegacy ==
    /\ now = 0
    /\ retryCount = 0
    /\ blacklist = <<>>
    /\ blFile = NoFile
    /\ idMap = <<>>
    /\ idFile = NoFile
    /\ tmdb = [s \in {SeriesA.full_name, SeriesB.full_name} |-> None]
    /\ resolveFailed = {}
    /\ call = NoCall
    /\ catalog = <<>>

CallGetTitleCardSourceImage(c) ==
    \E search \in LoadSearches, images \in ImagesResponses :
        LET st == [blacklist |-> blacklist, blFile |-> blFile,
                   idMap |-> idMap, idFile |-> idFile]
            out == GetTitleCardSourceImage(st, c,
                       [search |-> search, images |-> images])
        IN  /\ blacklist' = out.st.blacklist
            /\ blFile' = out.st.blFile
            /\ idMap' = out.st.idMap
            /\ idFile' = out.st.idFile
            /\ call' = [NoCall EXCEPT
                           !.op = "get_title_card_source_image",
                           !.qt = "image", !.key = LegacyKey(c),
                           !.series = c.series.full_name, !.t1 = now,
                           !.ret = out.ret, !.exit = out.exit,
                           !.queries = out.queries,
                           !.updates = out.updates,
                           !.blacklisted = out.exit = "blacklisted",
                           !.results = IF out.queries = <<>> THEN <<>>
                                       ELSE images]
            /\ UNCHANGED <<now, retryCount, tmdb, catalog, resolveFailed>>

NextLegacy ==
    \/ Tick
    \/ \E c \in LegacyTargets : CallGetTitleCardSourceImage(c)

SpecLegacy == InitLegacy /\ [][NextLegacy]_vars

---------------------------------------------------------------------------
(* Claims about the cache, checked under SpecCache *)

\* the entry of the last call's key, where it exists
CallEntry == blacklist[call.qt][call.key]

CallPresent == call.key \in DOMAIN blacklist[call.qt]

\* C1: __is_blacklisted returns false for a key without entry, true for an
\* entry whose failures exceed tmdb_retry_count, and otherwise true exactly
\* when the clock it reads is before the entry's next.  (The call changes
\* nothing, so the state after it still holds the blacklist it read.)
C1_IsBlacklistedCases ==
    call.op = "is_blacklisted" =>
        /\ ~CallPresent => call.ret = "False"
        /\ CallPresent /\ CallEntry.failures > retryCount => call.ret = "True"
        /\ CallPresent /\ CallEntry.failures <= retryCount =>
               (call.ret = "True" <=> call.t1 < CallEntry.next)

\* an entry under the threshold is asked about after its next has passed
C1_Witness ==
    /\ call.op = "is_blacklisted"
    /\ CallPresent
    /\ CallEntry.failures <= retryCount
    /\ call.t1 >= CallEntry.next
    /\ call.ret = "False"

\* C2: __update_blacklist has exactly three cases. Key absent: the entry
\* {failures 1, next now + 1 day} is inserted. Key present and now >= next:
\* failures + 1 and next = now + 1 day. Key present and now < next: nothing
\* changes (debounce). "now + 1 day" is the clock as line 162 reads it
\* (call.t1), the comparison with next the clock as line 164 reads it
\* (call.t2); when both reads fall in one tick these are one "now".
C2_UpdateCases ==
    [][call'.op = "update_blacklist" =>
        LET qt == call'.qt
            key == call'.key
            later == call'.t1 + TicksPerDay
        IN  IF key \notin DOMAIN blacklist[qt]
            THEN /\ key \in DOMAIN blacklist'[qt]
                 /\ blacklist'[qt][key] = [failures |-> 1, next |-> later]
            ELSE IF call'.t2 >= blacklist[qt][key].next
            THEN blacklist'[qt][key] =
                     [failures |-> blacklist[qt][key].failures + 1,
                      next |-> later]
            ELSE blacklist' = blacklist
    ]_vars

\* a second failure of a key was counted, a day or more after the first
C2_Witness ==
    /\ call.op = "update_blacklist"
    /\ CallPresent
    /\ CallEntry.failures = 2
    /\ CallEntry.next = call.t1 + TicksPerDay

\* C3: once an entry's failures exceed tmdb_retry_count, __is_blacklisted
\* is true for its key after every further step and at every later clock
\* value, also after next has passed, and every such call returns true.
C3_PermanentBlacklist ==
    [][\A qt \in QueryTypes : \A key \in DOMAIN blacklist[qt] :
          blacklist[qt][key].failures > retryCount =>
              /\ key \in DOMAIN blacklist'[qt]
              /\ \A t \in now' .. MaxTime + 2 * TicksPerDay :
                     IsBlacklisted(blacklist', retryCount', qt, key, t)
              /\ (call'.op = "is_blacklisted" /\ call'.qt = qt
                    /\ call'.key = key) => call'.ret = "True"
    ]_vars

\* a permanently blacklisted key is asked about after its next has passed
C3_Witness ==
    /\ call.op = "is_blacklisted"
    /\ CallPresent
    /\ CallEntry.failures > retryCount
    /\ call.t1 >= CallEntry.next
    /\ call.ret = "True"

\* C4: along any sequence of __update_blacklist calls with a clock that
\* never goes back, an entry's next never decreases, its failures never
\* decrease, and failures increase only in an __update_blacklist call for
\* that key whose clock read is at or after the entry's next.
C4_BackoffMonotone ==
    [][\A qt \in QueryTypes : \A key \in DOMAIN blacklist[qt] :
          /\ key \in DOMAIN blacklist'[qt]
          /\ blacklist'[qt][key].next >= blacklist[qt][key].next
          /\ blacklist'[qt][key].failures >= blacklist[qt][key].failures
          /\ blacklist'[qt][key].failures > blacklist[qt][key].failures =>
                 /\ call'.op = "update_blacklist"
                 /\ call'.qt = qt /\ call'.key = key
                 /\ call'.t2 >= blacklist[qt][key].next
    ]_vars

\* a failure counted by a call during which the clock reached next
C4_Witness ==
    /\ call.op = "update_blacklist"
    /\ CallPresent
    /\ CallEntry.failures = 2
    /\ call.t2 > call.t1
    /\ call.t2 = CallEntry.next - TicksPerDay + 1

\* the identity key of a request: the series key for a logo, the series
\* key and the episode key otherwise
IdentityKey(c) ==
    IF c.qt = "logo" THEN c.series.full_name
    ELSE c.series.full_name \o "-" \o c.episode.key

\* the step is a recordFailure for the request c
Records(c) ==
    /\ call'.op = "update_blacklist"
    /\ call'.qt = c.qt
    /\ call'.key = IdentityKey(c)

\* C35: every entry has a failure count of 1 or more; no step removes an
\* entry; a recordFailure is made under the identity key of its request
\* (series key for logo, series key + episode key for image and title) and
\* changes no entry but that one, so the entry and the blacklist status of
\* every other query type, episode and series stay as they were.
C35_EntryLifecycle ==
    [][/\ \A qt \in QueryTypes : \A key \in DOMAIN blacklist'[qt] :
              /\ blacklist'[qt][key].failures >= 1
              /\ \E c \in CacheTargets : c.qt = qt /\ key = IdentityKey(c)
       /\ \A qt \in QueryTypes : \A key \in DOMAIN blacklist[qt] :
              key \in DOMAIN blacklist'[qt]
       /\ call'.op = "update_blacklist" =>
              \E c \in CacheTargets :
                  Records(c) /\ call'.series = c.series.full_name
       /\ \A c \in CacheTargets :
              LET k == IdentityKey(c) IN
              ~Records(c) =>
                  /\ k \in DOMAIN blacklist'[c.qt] <=> k \in DOMAIN blacklist[c.qt]
                  /\ k \in DOMAIN blacklist[c.qt] =>
                         blacklist'[c.qt][k] = blacklist[c.qt][k]
                  /\ IsBlacklisted(blacklist', retryCount, c.qt, k, now')
                         <=> IsBlacklisted(blacklist, retryCount, c.qt, k, now')
    ]_vars

\* a second failure of one episode's image is recorded while the entries
\* of its title, of another episode and of another series' logo stay at one
C35_Witness ==
    /\ call.op = "update_blacklist"
    /\ call.qt = "image"
    /\ CallPresent
    /\ CallEntry.failures = 2
    /\ \A c \in CacheTargets :
           c.qt # "image" \/ IdentityKey(c) # call.key =>
               /\ IdentityKey(c) \in DOMAIN blacklist[c.qt]
               /\ blacklist[c.qt][IdentityKey(c)].failures = 1

---------------------------------------------------------------------------
(* Claims about the orchestrator, checked under Spec *)

Orchestrators == {"get_source_image", "get_episode_title", "get_series_logo"}

ResourceQueries == {"tv/episode/images", "tv/episode/language", "tv/images"}

\* the step is a call of one of the three operations
Called == call'.op \in Orchestrators /\ call = NoCall

\* the call of the step made the one recordFailure for its own key
RecordedOnce ==
    /\ call'.updates = 1
    /\ blacklist' = UpdateBlacklist(blacklist, call'.qt, call'.key,
                                    call'.t1, call'.t2)
    /\ call'.key \in DOMAIN blacklist'[call'.qt]
    /\ blFile' = blacklist'

\* C5: a call of get_source_image, get_episode_title or get_series_logo
\* whose (query type, key) is blacklisted when it is made returns None,
\* issues no provider query and leaves the blacklist, the identifier map,
\* their files and the series' provider ID as they were.
C5_BlacklistedReturnsAtOnce ==
    [][Called /\ call'.blacklisted =>
          /\ call'.ret = "None"
          /\ call'.queries = <<>>
          /\ call'.updates = 0
          /\ blacklist' = blacklist /\ blFile' = blFile
          /\ idMap' = idMap /\ idFile' = idFile
          /\ tmdb' = tmdb]_vars

C5_Witness ==
    /\ call.op = "get_source_image"
    /\ call.blacklisted
    /\ call.ret = "None"
    /\ call.key \in DOMAIN blacklist["image"]

\* C6 as stated: a call in which the series resolution fails (the series
\* has no provider ID after it) or, for image and title, the episode is not
\* found, records one failure for its key and returns None without
\* issuing the resource query.
C6_ResolutionFailureEndsCall ==
    [][Called /\ ~call'.blacklisted
          /\ \/ call'.resolve = "no_results" /\ tmdb[call'.series] = None
             \/ call'.exit = "no_episode"
       => /\ RecordedOnce
          /\ call'.ret = "None"
          /\ \A i \in DOMAIN call'.queries :
                 call'.queries[i].kind \notin ResourceQueries]_vars

\* C6 amended: a get_source_image or get_episode_title call in which the
\* episode is not found records one failure for its key and returns None
\* without issuing the resource query, and a series left without provider
\* ID ends so unless the cross-reference lookup finds the episode; a
\* get_series_logo call always issues the logos query, for the ID None when
\* the series has none, and records one failure and returns None when that
\* query yields no logos.
C6_EpisodeNotFoundEndsCall ==
    [][Called /\ ~call'.blacklisted =>
          /\ call'.exit = "no_episode" =>
                /\ RecordedOnce
                /\ call'.ret = "None"
                /\ \A i \in DOMAIN call'.queries :
                       call'.queries[i].kind \notin ResourceQueries
          /\ /\ call'.op # "get_series_logo"
             /\ tmdb'[call'.series] = None
             => call'.exit = "no_episode"
          /\ call'.op = "get_series_logo" =>
                /\ call'.queries[Len(call'.queries)] =
                       Query("tv/images", tmdb'[call'.series], None, None)
                /\ call'.exit = "no_logos" =>
                       RecordedOnce /\ call'.ret = "None"]_vars

C6_Witness ==
    /\ call.op = "get_episode_title"
    /\ call.resolve = "no_results"
    /\ call.exit = "no_episode"
    /\ call.updates = 1
    /\ tmdb[call.series] = None

\* C7: a call whose resource query gives no qualifying result (no stills,
\* no still of the minimum resolution, an unsuccessful episode detail, a
\* generic title, no logos, no transparent English logo) makes exactly one
\* recordFailure for its key and returns None.
C7_NoQualifyingResultRecordsOnce ==
    [][Called /\ call'.exit \in {"no_images", "too_small", "unsuccessful",
                                 "generic", "no_logos", "no_valid_logo"}
       => RecordedOnce /\ call'.ret = "None"]_vars

C7_Witness ==
    /\ call.exit = "generic"
    /\ call.updates = 1
    /\ CallPresent
    /\ CallEntry.failures = 2

\* C8: a call that returns a URL or a title leaves the blacklist and its
\* file exactly as they were.
C8_SuccessLeavesBlacklist ==
    [][Called /\ call'.exit \in {"url", "title"} =>
          /\ call'.ret # "None"
          /\ blacklist' = blacklist
          /\ blFile' = blFile]_vars

C8_Witness ==
    /\ call.exit \in {"url", "title"}
    /\ call.ret # "None"
    /\ CallPresent
    /\ CallEntry.failures = 1

\* the call asked the provider about an episode: a get_source_image or
\* get_episode_title call that the blacklist did not stop
AskedForEpisode ==
    /\ call.op \in {"get_source_image", "get_episode_title"}
    /\ call.exit # "blacklisted"

\* C31: when the cross-reference lookup of __find_episode did not succeed
\* and the series has no provider ID, the call issues no direct, absolute
\* or season query (nor a resource query) and ends as episode-not-found;
\* hence get_source_image and get_episode_title return a result other than
\* None only for a series that has a provider ID.
C31_UnresolvedSeriesFindsNothing ==
    AskedForEpisode =>
        /\ tmdb[call.series] = None =>
               /\ \A i \in 1 .. Len(call.queries) :
                      call.queries[i].kind \in {"find", "search/tv"}
               /\ call.exit = "no_episode"
               /\ call.ret = "None"
        /\ call.ret # "None" => tmdb[call.series] # None

\* a call for an episode with a TVDb ID of a series that stays unresolved
C31_Witness ==
    /\ AskedForEpisode
    /\ tmdb[call.series] = None
    /\ call.exit = "no_episode"
    /\ Len(call.queries) >= 2
    /\ call.queries[Len(call.queries)].kind = "find"

\* C34: a provider answer that is successful but lacks the field the
\* operation reads (an episode-images answer without 'stills', an episode
\* answer without 'name') is treated as not-found: the operation records a
\* failure for its (query type, key) and returns None.
C34_MalformedRecordsFailure ==
    /\ AskedForEpisode
    /\ call.results = Malformed
    /\ call.queries[Len(call.queries)].kind \in ResourceQueries
    => /\ call.exit # "raised"
       /\ call.ret = "None"
       /\ call.updates = 1
       /\ call.key \in DOMAIN blacklist[call.qt]

\* C36: a deadline supplied by the caller is checked before each tier of
\* the episode matcher and before each query of the orchestrator: a call
\* made when the deadline has expired issues no provider query and ends
\* with a timeout failure.  (No operation takes a deadline: the call of the
\* step is the call the caller makes under any deadline.)
C36_DeadlineStopsQueries ==
    [][Called /\ ~call'.blacklisted =>
          \A deadline \in 0 .. now :
              call'.queries = <<>> /\ call'.exit = "timeout"]_vars

\* C37: starting from an empty blacklist, with a constant retry threshold,
\* after any sequence of calls of the three operations at any times every
\* entry has a failure count of at least 1 and at most the threshold + 1:
\* a failure is recorded only in a call for which __is_blacklisted has just
\* answered False.
C37_BoundedFailureCount ==
    /\ \A qt \in QueryTypes : \A key \in DOMAIN blacklist[qt] :
           /\ blacklist[qt][key].failures >= 1
           /\ blacklist[qt][key].failures <= retryCount + 1
    /\ call.updates > 0 => ~call.blacklisted

\* with a threshold of 1 or more, a key has failed threshold + 1 times
C37_Witness ==
    /\ call.op \in Orchestrators
    /\ call.updates = 1
    /\ retryCount >= 1
    /\ CallPresent
    /\ CallEntry.failures = retryCount + 1

\* C38: after an operation has recorded a failure for its (query type,
\* key) at time t, the entry's next is t + 1 day, and every call of the
\* operation for that key made before next returns None, issues no provider
\* query and leaves the entry as it is; a call for a key with an entry
\* queries the provider only at or after the entry's next and only while
\* its failure count is at most the threshold.
C38_SuppressionWindow ==
    [][Called =>
          LET qt == call'.qt
              key == call'.key
          IN  /\ call'.updates > 0 =>
                     /\ key \in DOMAIN blacklist'[qt]
                     /\ blacklist'[qt][key].next = call'.t1 + TicksPerDay
              /\ key \in DOMAIN blacklist[qt] =>
                     /\ now < blacklist[qt][key].next =>
                            /\ call'.ret = "None"
                            /\ call'.queries = <<>>
                            /\ blacklist'[qt][key] = blacklist[qt][key]
                     /\ call'.queries # <<>> =>
                            /\ now >= blacklist[qt][key].next
                            /\ blacklist[qt][key].failures <= retryCount
    ]_vars

\* a call made inside the window of a key that is under the threshold
C38_Witness ==
    /\ call.op \in Orchestrators
    /\ call.blacklisted
    /\ call.queries = <<>>
    /\ CallPresent
    /\ CallEntry.failures <= retryCount
    /\ call.t1 > CallEntry.next - TicksPerDay
    /\ call.t1 < CallEntry.next

---------------------------------------------------------------------------
(* Claims about the resolver, checked under SpecResolver *)

SeriesNamed(fn) == CHOOSE s \in {SeriesA, SeriesB} : s.full_name = fn

Issued(c, kind) == \E i \in 1 .. Len(c.queries) : c.queries[i].kind = kind

\* C9: for a series whose TVDb ID or full name is a key of the identifier
\* map, whatever ID the key is mapped to, every __set_tmdb_id call issues
\* no provider query, leaves the identifier map as it is and sets the
\* series' provider ID to the mapped ID (the TVDb ID's if that is mapped,
\* else the name's), hence to the same ID in every call.
C9_CachedResolutionIdempotent ==
    [][call'.op = "set_tmdb_id" =>
        LET s == SeriesNamed(call'.series)
            byId == s.tvdb_id # None /\ s.tvdb_id \in DOMAIN idMap.id
            byName == s.full_name \in DOMAIN idMap.name
        IN  (byId \/ byName) =>
                /\ call'.queries = <<>>
                /\ idMap' = idMap
                /\ idFile' = idFile
                /\ tmdb'[s.full_name] = IF byId THEN idMap.id[s.tvdb_id]
                                        ELSE idMap.name[s.full_name]
    ]_vars

\* C10: a __set_tmdb_id call that ends with zero title-search results
\* leaves the series' provider ID unset, changes neither the blacklist nor
\* the identifier map (in memory or on file), and does not suppress later
\* resolutions: every later __set_tmdb_id call for that series issues the
\* title search again.
C10_FailedResolutionRetried ==
    [][call'.op = "set_tmdb_id" =>
        /\ call'.exit = "no_results" =>
               /\ tmdb'[call'.series] = None
               /\ tmdb' = tmdb
               /\ blacklist' = blacklist /\ blFile' = blFile
               /\ idMap' = idMap /\ idFile' = idFile
        /\ call'.repeat => Issued(call', "search/tv")
    ]_vars

\* a second resolution of a series after one that found nothing: it has
\* searched again, and found nothing again
C10_Witness ==
    /\ call.op = "set_tmdb_id"
    /\ call.repeat
    /\ call.exit = "no_results"
    /\ Issued(call, "search/tv")
    /\ call.series \in resolveFailed
    /\ tmdb[call.series] = None

\* the provider queries of a resolution that finds the series in neither
\* map: the cross-reference lookup only with a TVDb ID, the title search
\* only after a lookup that was skipped or did not return exactly one series
AttemptsOfUnmapped(s) ==
    LET qFind == Query("find", s.tvdb_id, None, None)
        qSearch == Query("search/tv", None, None, None)
    IN  IF s.tvdb_id = None THEN <<qSearch>>
        ELSE IF Len(catalog[s.full_name].find) = 1 THEN <<qFind>>
        ELSE <<qFind, qSearch>>

\* C25: __set_tmdb_id consults, in this order, the TVDb-ID map, the name
\* map, the provider's cross-reference lookup (only with a TVDb ID) and the
\* provider's title search: a mapped TVDb ID wins over a mapped name, a hit
\* in either map issues no provider query, and the title search is issued
\* only when the lookup was skipped or did not return exactly one series.
C25_ResolverAttemptOrder ==
    [][call'.op = "set_tmdb_id" =>
        LET s == SeriesNamed(call'.series)
            fn == s.full_name
            byId == s.tvdb_id # None /\ s.tvdb_id \in DOMAIN idMap.id
            byName == fn \in DOMAIN idMap.name
        IN  /\ byId => /\ call'.queries = <<>>
                       /\ tmdb'[fn] = idMap.id[s.tvdb_id]
            /\ ~byId /\ byName => /\ call'.queries = <<>>
                                  /\ tmdb'[fn] = idMap.name[fn]
            /\ ~byId /\ ~byName => call'.queries = AttemptsOfUnmapped(s)
    ]_vars

\* the series' IDs, the map and its file when series s has been recorded
\* with the given ID
Recorded(ids, map, file, s, id) ==
    /\ ids[s.full_name] = id
    /\ s.full_name \in DOMAIN map.name /\ map.name[s.full_name] = id
    /\ s.tvdb_id # None =>
           s.tvdb_id \in DOMAIN map.id /\ map.id[s.tvdb_id] = id
    /\ file = map

\* C26: when the cross-reference lookup by TVDb ID returns exactly one
\* series, __set_tmdb_id sets the series' provider ID to that result's ID,
\* records name -> ID and TVDb ID -> ID in the identifier map and its file,
\* and returns without the title search; when the title search has
\* results, the ID set and recorded is that of the first result.
C26_LookupAndSearchRecord ==
    [][call'.op = "set_tmdb_id" =>
        LET s == SeriesNamed(call'.series)
            answer == catalog[s.full_name]
        IN  /\ Issued(call', "find") /\ Len(answer.find) = 1 =>
                   /\ Recorded(tmdb', idMap', idFile', s, answer.find[1])
                   /\ ~Issued(call', "search/tv")
            /\ Issued(call', "search/tv") /\ answer.search.total_results > 0
                   => Recorded(tmdb', idMap', idFile', s,
                               answer.search.results[1])
    ]_vars

\* a series with TVDb ID resolved by a lookup that returned one series
C26_Witness ==
    /\ call.op = "set_tmdb_id"
    /\ call.series = SeriesA.full_name
    /\ Issued(call, "find") /\ ~Issued(call, "search/tv")
    /\ Len(catalog[call.series].find) = 1
    /\ Recorded(tmdb, idMap, idFile, SeriesA, catalog[call.series].find[1])

---------------------------------------------------------------------------
(* Claims about the identifier map, checked under SpecMap *)

\* C11: a key of the identifier map (a full name or a TVDb ID) stays a key
\* in every step, mapped to the ID it was mapped to.
C11_MapAppendOnly ==
    [][/\ \A fn \in DOMAIN idMap.name :
              fn \in DOMAIN idMap'.name /\ idMap'.name[fn] = idMap.name[fn]
       /\ \A tv \in DOMAIN idMap.id :
              tv \in DOMAIN idMap'.id /\ idMap'.id[tv] = idMap.id[tv]]_vars

\* C12 (checked under Spec): a series' provider ID, once set, is set after
\* every step: a resolution, an episode match or a whole operation may
\* replace it by another ID and never resets it to None.
C12_ProviderIdNeverCleared ==
    [][\A fn \in DOMAIN tmdb : tmdb[fn] # None => tmdb'[fn] # None]_vars

\* a call in which the resolution found nothing and the episode was not
\* found, for a series whose ID the cross-reference lookup of an earlier
\* call had set: the ID is still set
C12_Witness ==
    /\ call.op \in Orchestrators
    /\ call.resolve = "no_results"
    /\ call.exit = "no_episode"
    /\ call.series \notin DOMAIN idMap.name
    /\ tmdb[call.series] # None

---------------------------------------------------------------------------
(* Claims about the episode matcher, checked under SpecMatcher *)

\* C13: when the episode has a TVDb ID and the cross-reference lookup
\* returns a result or more, __find_episode returns the season and episode
\* of the first result, whatever title_match and the titles are, sets the
\* series' provider ID to the result's show_id, and its only provider query
\* is the lookup.
C13_Tier1ShortCircuits ==
    call.op = "find_episode" /\ catalog.episode.tvdb_id # None
        /\ Len(catalog.answers.tier1) > 0
    => /\ call.index = [season |-> catalog.answers.tier1[1].season_number,
                        episode |-> catalog.answers.tier1[1].episode_number]
       /\ tmdb[call.series] = catalog.answers.tier1[1].show_id
       /\ call.queries = <<Query("find", catalog.episode.tvdb_id, None, None)>>

\* the lookup found two episodes, title_match is set and the direct query
\* would have found nothing: the first result is returned and its show_id
\* is the series' ID
C13_Witness ==
    /\ call.op = "find_episode"
    /\ catalog.episode.tvdb_id # None
    /\ catalog.title_match
    /\ Len(catalog.answers.tier1) = 2
    /\ Unsuccessful(catalog.answers.direct)
    /\ call.exit = "tier1"
    /\ tmdb[call.series] = MaxId
    /\ call.index = [season |-> 2, episode |-> 1]

\* the call went past Tier 1 with a series that has a provider ID
Searched ==
    /\ call.op = "find_episode"
    /\ ~(catalog.episode.tvdb_id # None /\ Len(catalog.answers.tier1) > 0)
    /\ tmdb[call.series] # None

\* the absolute-number fallback applies to the call's input
AbsRuns ==
    Unsuccessful(catalog.answers.direct) /\ catalog.episode.abs_number # None

\* the seasons whose (season, absolute number) the provider knows
SeasonsHit ==
    {s \in Seasons(catalog.episode) :
        "season_number" \in DOMAIN catalog.answers.abs[s]}

Highest(S) == CHOOSE s \in S : \A t \in S : t <= s

\* the Tier 2 candidate of the call's input: the direct answer, or after a
\* not-found with a known absolute number the answer of the highest season
\* that knows it
Candidate ==
    IF ~AbsRuns THEN catalog.answers.direct
    ELSE IF SeasonsHit = {} THEN NotFound
    ELSE catalog.answers.abs[Highest(SeasonsHit)]

HasCandidate == "name" \in DOMAIN Candidate

IndexOf(info) ==
    [season |-> info.season_number, episode |-> info.episode_number]

\* Tier 3 accepts the candidate
Accepted ==
    /\ HasCandidate
    /\ ~catalog.title_match \/ Matches(catalog.episode.title, Candidate.name)

\* the queries of each tier, as the call's input determines them
FindQueries ==
    IF catalog.episode.tvdb_id # None
    THEN <<Query("find", catalog.episode.tvdb_id, None, None)>>
    ELSE <<>>

DirectQuery ==
    Query("tv/episode", tmdb[call.series], catalog.episode.season_number,
          catalog.episode.episode_number)

\* the first n queries by absolute number: seasons downwards
AbsQueries(n) ==
    [i \in 1 .. n |->
        Query("tv/episode", tmdb[call.series],
              catalog.episode.season_number - i + 1,
              catalog.episode.abs_number)]

\* the first n fetches of whole seasons: seasons upwards from 0
SeasonQueries(n) ==
    [i \in 1 .. n |-> Query("tv/season", tmdb[call.series], i - 1, None)]

Counts == 0 .. catalog.episode.season_number + 1

\* C27: the tiers run strictly in order within one __find_episode call: its
\* queries are the cross-reference lookup (if any), then the direct query,
\* then the queries by absolute number, then the fetches of whole seasons,
\* never interleaved or reordered; and the season scan starts only when
\* Tier 3 has accepted no Tier 2 candidate.
C27_TiersInOrder ==
    call.op = "find_episode" =>
        \E d \in 0 .. 1, a \in Counts, b \in Counts :
            /\ call.queries = FindQueries
                                \o (IF d = 1 THEN <<DirectQuery>> ELSE <<>>)
                                \o AbsQueries(a) \o SeasonQueries(b)
            /\ a + b > 0 => d = 1
            /\ b > 0 => ~Accepted

\* a call that went through all four tiers
C27_Witness ==
    /\ Searched
    /\ Issued(call, "find")
    /\ AbsRuns
    /\ Len(call.queries) = 2 + 2 * Cardinality(Seasons(catalog.episode))
    /\ Issued(call, "tv/season")

\* the first season of the scan that the provider does not have, or the
\* season after the episode's when it has them all
FirstMissing ==
    LET missing == {s \in Seasons(catalog.episode) :
                       Unsuccessful(catalog.answers.seasons[s])}
    IN  IF missing = {} THEN catalog.episode.season_number + 1
        ELSE CHOOSE s \in missing : \A t \in missing : s <= t

\* the places (season, position in its list) of the episodes whose title
\* matches, in the seasons before the first missing one
MatchingPlaces ==
    {p \in (0 .. FirstMissing - 1) \X (1 .. 2) :
        /\ p[2] <= Len(catalog.answers.seasons[p[1]].episodes)
        /\ Matches(catalog.episode.title,
                   catalog.answers.seasons[p[1]].episodes[p[2]].name)}

\* the first place in season order, then list order
FirstPlace ==
    CHOOSE p \in MatchingPlaces :
        \A q \in MatchingPlaces : p[1] < q[1] \/ (p[1] = q[1] /\ p[2] <= q[2])

\* C28: the Tier 4 season scan fetches the seasons in ascending order 0, 1,
\* ..., episode.season; the first season that is not found ends the call
\* with None without any later season being fetched; otherwise the result is
\* the first episode, in season order then list order, whose title matches,
\* and None if there is none.
C28_SeasonScan ==
    Searched /\ ~Accepted =>
        LET fetched ==
                IF MatchingPlaces # {} THEN FirstPlace[1] + 1
                ELSE IF FirstMissing <= catalog.episode.season_number
                THEN FirstMissing + 1
                ELSE catalog.episode.season_number + 1
        IN  /\ \E a \in Counts :
                   call.queries = FindQueries \o <<DirectQuery>>
                                    \o AbsQueries(a) \o SeasonQueries(fetched)
            /\ call.index =
                   IF MatchingPlaces = {} THEN NoIndex
                   ELSE IndexOf(catalog.answers.seasons[FirstPlace[1]]
                                    .episodes[FirstPlace[2]])

\* season 0 is not found and the episode's own season has the title: the
\* call returns None after the one fetch
C28_Witness ==
    /\ Searched /\ ~Accepted
    /\ catalog.episode.season_number = 1
    /\ Unsuccessful(catalog.answers.seasons[0])
    /\ ~Unsuccessful(catalog.answers.seasons[1])
    /\ Len(catalog.answers.seasons[1].episodes) = 2
    /\ call.index = NoIndex
    /\ call.queries[Len(call.queries)]
           = Query("tv/season", tmdb[call.series], 0, None)

\* the number of queries by absolute number the call's input asks for:
\* none when the fallback does not run, else one for each season from the
\* episode's down to the highest one that knows the absolute number, or
\* down to 0 when none does
AbsTried ==
    IF ~AbsRuns THEN 0
    ELSE IF SeasonsHit = {} THEN catalog.episode.season_number + 1
    ELSE catalog.episode.season_number - Highest(SeasonsHit) + 1

\* C29: the Tier 2 fallback by absolute number runs only when the direct
\* query reports not-found and the episode has an absolute number; it asks
\* for (season s, episode = absolute number) for s from the episode's season
\* downwards and stops at the first season that yields a result, which is
\* then the candidate (returned as it is when no title match is required);
\* when no season yields a result there is no candidate and the search goes
\* on to the seasons.
C29_AbsoluteFallback ==
    Searched =>
        /\ \E b \in Counts :
               call.queries = FindQueries \o <<DirectQuery>>
                                \o AbsQueries(AbsTried) \o SeasonQueries(b)
        /\ AbsRuns /\ SeasonsHit # {} /\ ~catalog.title_match =>
               /\ call.exit = "index"
               /\ call.index = IndexOf(catalog.answers.abs[Highest(SeasonsHit)])
        /\ AbsRuns /\ SeasonsHit = {} => Issued(call, "tv/season")

\* the episode's own season does not know the absolute number, season 0
\* does, and its answer is returned after the two queries
C29_Witness ==
    /\ Searched /\ AbsRuns /\ ~catalog.title_match
    /\ catalog.episode.season_number = 1
    /\ SeasonsHit = {0}
    /\ call.queries[Len(call.queries)]
           = Query("tv/episode", tmdb[call.series], 0,
                   catalog.episode.abs_number)
    /\ call.index = IndexOf(catalog.answers.abs[0])

\* C30: a Tier 2 candidate is returned unconditionally when no title match
\* is required; when one is required it is returned if and only if its
\* provider title equals the expected title after normalization, and
\* otherwise the candidate is dropped and the seasons are scanned.
C30_Tier3Acceptance ==
    Searched /\ HasCandidate =>
        /\ ~catalog.title_match =>
               call.exit = "index" /\ call.index = IndexOf(Candidate)
        /\ catalog.title_match =>
               IF Matches(catalog.episode.title, Candidate.name)
               THEN /\ call.exit = "index_title"
                    /\ call.index = IndexOf(Candidate)
                    /\ ~Issued(call, "tv/season")
               ELSE /\ call.exit \in {"season", "none"}
                    /\ Issued(call, "tv/season")

\* a title match is required, the candidate has another title, and the
\* season scan finds the episode
C30_Witness ==
    /\ Searched /\ HasCandidate /\ catalog.title_match
    /\ ~Matches(catalog.episode.title, Candidate.name)
    /\ call.exit = "season"
    /\ call.index # IndexOf(Candidate)

\* the number of the call's queries of a kind
Asked(kind) ==
    Cardinality({i \in 1 .. Len(call.queries) : call.queries[i].kind = kind})

\* C39: for an episode of season S and whatever the provider answers, a
\* __find_episode call issues at most 2*(S+1) + 2 provider queries: at most
\* one cross-reference lookup, one direct query, S+1 queries by absolute
\* number and S+1 season fetches; every season it asks for lies in 0..S;
\* and it changes neither the identifier map nor the blacklist, in memory
\* or on file.
C39_BoundedSearch ==
    call.op = "find_episode" =>
        LET S == catalog.episode.season_number IN
        /\ Len(call.queries) <= 2 * (S + 1) + 2
        /\ Asked("find") <= 1
        /\ Asked("tv/episode") <= 1 + (S + 1)
        /\ Asked("tv/season") <= S + 1
        /\ Asked("find") + Asked("tv/episode") + Asked("tv/season")
               = Len(call.queries)
        /\ \A i \in 1 .. Len(call.queries) :
               call.queries[i].kind # "find" =>
                   call.queries[i].season \in 0 .. S
        /\ idMap = EmptyIdMap /\ idFile = NoFile
        /\ blacklist = EmptyBlacklist /\ blFile = NoFile

\* every query the bound allows is issued and the episode is not found
C39_Witness ==
    /\ call.op = "find_episode"
    /\ catalog.episode.season_number = 1
    /\ Len(call.queries) = 6
    /\ Asked("tv/season") = 2
    /\ call.index = NoIndex

---------------------------------------------------------------------------
(* Claims about the asset selectors, checked under SpecSelectors *)

\* the candidates of the call that meet the configured minimum
Valid(i) ==
    /\ catalog.images[i].width >= catalog.preferences.width
    /\ catalog.images[i].height >= catalog.preferences.height

Area(i) == catalog.images[i].width * catalog.images[i].height

\* C14: __determine_best_image returns None exactly when no image of the
\* list meets the minimum resolution, and otherwise an image that meets it.
C14_BestImageMeetsMinimum ==
    call.op = "determine_best_image" =>
        IF \E i \in DOMAIN catalog.images : Valid(i)
        THEN call.best \in DOMAIN catalog.images /\ Valid(call.best)
        ELSE call.best = 0

\* i is at least as good as j: a larger area, or the same area and a vote
\* average that is not smaller
AsGood(i, j) ==
    \/ Area(i) > Area(j)
    \/ /\ Area(i) = Area(j)
       /\ catalog.images[i].vote_average >= catalog.images[j].vote_average

\* C15: when images meet the minimum resolution, __determine_best_image
\* returns, among them, one of maximal width*height, among those one of
\* maximal vote average, and among those the earliest of the list.
C15_BestImageIsMaximal ==
    call.op = "determine_best_image"
        /\ (\E i \in DOMAIN catalog.images : Valid(i))
    => /\ call.best \in DOMAIN catalog.images
       /\ Valid(call.best)
       /\ \A j \in DOMAIN catalog.images :
              Valid(j) =>
                  /\ AsGood(call.best, j)
                  /\ AsGood(j, call.best) => call.best <= j

\* the logos of the call that are png or svg and English
Survivor(i) ==
    catalog.logos[i].ext \in {"png", "svg"}
        /\ catalog.logos[i].iso_639_1 = "en"

\* C16: the logo that get_series_logo selects from a list is png or svg
\* and English, whatever the order of the list; when the list has no such
\* logo the result is None.
C16_LogoIsSurvivor ==
    call.op = "best_logo" =>
        IF \E i \in DOMAIN catalog.logos : Survivor(i)
        THEN call.best \in DOMAIN catalog.logos /\ Survivor(call.best)
        ELSE call.best = 0

\* the svg logos among the survivors of the list
SvgSurvivors ==
    {i \in DOMAIN catalog.logos : Survivor(i) /\ catalog.logos[i].ext = "svg"}

\* the survivors of the list
Survivors == {i \in DOMAIN catalog.logos : Survivor(i)}

LogoArea(i) == catalog.logos[i].width * catalog.logos[i].height

\* C32: when a survivor (png or svg, English) of the list is svg, the logo
\* that get_series_logo selects is the first svg survivor in list order,
\* whatever the areas; otherwise it is the png survivor of the largest
\* width*height, the earliest of them on a tie.
C32_LogoSelection ==
    call.op = "best_logo" /\ Survivors # {} =>
        IF SvgSurvivors # {}
        THEN /\ call.best \in SvgSurvivors
             /\ \A i \in SvgSurvivors : call.best <= i
        ELSE /\ call.best \in Survivors
             /\ \A i \in Survivors :
                    \/ LogoArea(i) < LogoArea(call.best)
                    \/ LogoArea(i) = LogoArea(call.best) /\ call.best <= i

\* the language's template with the number in it
Templated(language_code, number) ==
    GenericTitleFormats[language_code][1] \o ToString(number)
        \o GenericTitleFormats[language_code][2]

\* C17: __is_generic_title returns True exactly when the language code has
\* a template and the title is the template with the episode number or,
\* for an episode with an absolute number, with the absolute number; for a
\* language code without template it returns False.
C17_GenericTitleExactly ==
    call.op = "is_generic_title" =>
        (call.ret = "True" <=>
            /\ catalog.language_code \in DOMAIN GenericTitleFormats
            /\ \/ catalog.title = Templated(catalog.language_code,
                                            catalog.episode.episode_number)
               \/ /\ catalog.episode.abs_number # None
                  /\ catalog.title = Templated(catalog.language_code,
                                               catalog.episode.abs_number))

\* language en, episode 5, no absolute number, title "Episode 5": True
C17_Witness ==
    /\ call.op = "is_generic_title"
    /\ catalog.language_code = "en"
    /\ catalog.title = "Episode 5"
    /\ catalog.episode.episode_number = 5
    /\ catalog.episode.abs_number = None
    /\ call.ret = "True"

---------------------------------------------------------------------------
(* Claims about persistence, checked under SpecStore *)

\* C18: saving either map is atomic with respect to crashes: when the
\* process has crashed during a save of the blacklist or of the identifier
\* map, the file holds the complete snapshot it held before the save or the
\* complete new one, never an empty or partial file.
C18_SaveIsAtomic ==
    catalog.crashed =>
        /\ call.op = "update_blacklist" =>
               blFile = catalog.saved \/ blFile = blacklist
        /\ call.op = "add_id_to_map" =>
               idFile = catalog.saved \/ idFile = idMap

\* C19: write-through: when a call that changed the in-memory blacklist or
\* identifier map has returned, the file equals the caller's in-memory map
\* and holds every key or name that calls which returned earlier recorded,
\* whichever interface object made them.
C19_WriteThrough ==
    ~catalog.crashed /\ call.exit = "returned" /\ call.updates = 1 =>
        /\ call.op = "update_blacklist" =>
               /\ blFile = blacklist
               /\ \A r \in catalog.recorded :
                      r.qt \in QueryTypes => r.key \in DOMAIN blFile[r.qt]
        /\ call.op = "add_id_to_map" =>
               /\ idFile = idMap
               /\ \A r \in catalog.recorded :
                      r.qt = "name" => r.key \in DOMAIN idFile.name

\* C20: an interface constructed while a backing file is absent starts from
\* the empty default of that map (a blacklist with the sections image, title
\* and logo and no entry, an identifier map without mapping), whatever the
\* objects constructed earlier in the process have recorded.
C20_AbsentFileGivesEmptyDefault ==
    call.op = "construct" =>
        /\ blFile = NoFile => blacklist = EmptyBlacklist
        /\ idFile = NoFile => idMap = EmptyIdMap

\* C24: delete_blacklist performs the full reset of the cache: the call
\* completes without error and afterwards there is no blacklist file,
\* whether or not there was one before.
C24_DeleteBlacklistResets ==
    call.op = "delete_blacklist" => call.exit = "returned" /\ blFile = NoFile

---------------------------------------------------------------------------
(* Claims about loading, checked under SpecLoad *)

\* C21: a corrupt persisted store is never fatal: whatever the blacklist
\* file and the identifier-map file hold, the construction of the interface
\* completes and no later __is_blacklisted, __update_blacklist or
\* __set_tmdb_id call raises.
C21_CorruptStoreNeverFatal == call.exit # "raised"

\* an entry is a record with an integer failure count and a timestamp
WellFormedEntry(entry) ==
    /\ entry.type = "dict"
    /\ entry.failures.type = "int"
    /\ entry.next.type = "datetime"

\* the construction of the step read a blacklist file that yaml could parse
Repaired ==
    /\ call.op = "construct"
    /\ blFile \notin {NoFile, Unparseable}
    /\ idFile # Unparseable

\* the file's entry for the key was a string, not a record
WasNoRecord(qt, key) ==
    /\ blFile.type = "dict"
    /\ qt \in DOMAIN blFile.items
    /\ blFile.items[qt] = PyDict(Put(<<>>, key, PyStr))

\* C33: whatever structure the blacklist file holds, __fix_blacklist returns
\* a blacklist whose sections image, title and logo all exist and are maps
\* and whose every entry is a record with an integer failure count and a
\* timestamp; an entry that was no record has become {1, the time of the
\* repair}; so also for an entry with several defects at once.
C33_RepairPostcondition ==
    Repaired =>
        /\ call.exit = "returned"
        /\ blacklist.type = "dict"
        /\ \A qt \in QueryTypes :
               /\ qt \in DOMAIN blacklist.items
               /\ blacklist.items[qt].type = "dict"
               /\ \A key \in DOMAIN blacklist.items[qt].items :
                      /\ WellFormedEntry(blacklist.items[qt].items[key])
                      /\ WasNoRecord(qt, key) =>
                             \E t \in 0 .. now :
                                 blacklist.items[qt].items[key]
                                     = Entry(IntOf(1), TimeOf(t))

---------------------------------------------------------------------------
(* Claims about concurrent callers, checked under SpecCallers *)

\* the callers that wait for the provider's answer about series fn
InFlight(fn) ==
    {c \in Callers : /\ catalog.callers[c].pc \in {"find", "search"}
                     /\ catalog.callers[c].series.full_name = fn}

\* C22: per-key serialization: at most one resolution of a series is in
\* flight at any time, and the failures of a blacklist key rise by at most
\* one per waiting window, that is, only in a step taken when the clock has
\* reached the entry's next.
C22_PerKeySerialization ==
    [][/\ \A fn \in DOMAIN tmdb : Cardinality(InFlight(fn)') <= 1
       /\ \A key \in DOMAIN blacklist[CallersTarget.qt] :
              blacklist'[CallersTarget.qt][key].failures
                  > blacklist[CallersTarget.qt][key].failures
              => now >= blacklist[CallersTarget.qt][key].next]_vars

---------------------------------------------------------------------------
(* Claims about the transport, checked under SpecTransport *)

\* C23: a query that fails at the transport level (network failure, a
\* status other than 2xx, a malformed response) never creates or updates a
\* blacklist entry, and its outcome is reported to the caller distinctly
\* from the result None of a search that found nothing.
C23_TransportFailureNotBlacklisted ==
    /\ call.op = "get_series_logo"
    /\ call.exit # "blacklisted"
    /\ catalog.kind # "ok"
    => call.updates = 0 /\ call.ret # "None"

---------------------------------------------------------------------------
(* Claims about the earlier interface, checked under SpecLegacy *)

\* the keys of a list
Keys(list) == {list[i] : i \in 1 .. Len(list)}

\* the step is a call of get_title_card_source_image (the clock stands
\* still during a call)
LegacyCalled == call'.op = "get_title_card_source_image" /\ now' = now

\* C40: in DatabaseInterface the blacklist is a list that only grows, with
\* no backoff: a key is appended only by a call whose images query was
\* answered without 'stills' or with an empty list of stills; once a key is
\* in the list every later get_title_card_source_image call for it, at any
\* time, returns None and issues no provider query; and in sequential use
\* no key is in the list twice.
C40_LegacyBlacklist ==
    [][LegacyCalled =>
          /\ Len(blacklist') >= Len(blacklist)
          /\ SubSeq(blacklist', 1, Len(blacklist)) = blacklist
          /\ blacklist' # blacklist =>
                 /\ blacklist' = Append(blacklist, call'.key)
                 /\ call'.queries[Len(call'.queries)].kind
                        = "tv/episode/images"
                 /\ \/ "stills" \notin DOMAIN call'.results
                    \/ Len(call'.results.stills) = 0
          /\ call'.key \in Keys(blacklist) =>
                 /\ call'.ret = "None"
                 /\ call'.queries = <<>>
                 /\ blacklist' = blacklist
          /\ Cardinality(Keys(blacklist')) = Len(blacklist')
    ]_vars

\* a call for a key of the list, made after time has passed, while the list
\* holds another key as well
C40_Witness ==
    /\ call.op = "get_title_card_source_image"
    /\ call.blacklisted
    /\ call.queries = <<>>
    /\ call.t1 = MaxTime
    /\ Len(blacklist) >= 2
    /\ blacklist[1] = call.key

=============================================================================
